---- MODULE Spec2Model ----
(***************************************************************************)
(* Model of the Colpensiones report extractor (src/pdf_table_extractor.py):*)
(* the weeks driver, the payments driver, the header matchers, the row     *)
(* classifiers, the record builders and the free-text summary miner.       *)
(*                                                                         *)
(* Encoding of Python values                                               *)
(*   str            a TLA+ string; "\n" is the line break                  *)
(*   None (text)    the reserved string None, which no input text equals   *)
(*   float          a decimal <<n, d>> standing for n / 10^d, with d the   *)
(*                  least possible (1193.0 is <<1193, 0>>, 87.5 <<875, 1>>)*)
(*   None (float)   NoneNum, the empty tuple                               *)
(*   int            an integer in a 1-tuple <<k>>, None being NoneNum      *)
(*   list           a sequence, 1-indexed (Python index i is i + 1 here)   *)
(***************************************************************************)
EXTENDS Integers, Sequences, FiniteSets, TLC

None == "<None>"
NoneNum == <<>>

\* Python truthiness of an optional text cell: `if cell`.
Truthy(cell) == cell /= None /\ cell /= ""

(***************************************************************************)
(* Python string primitives.                                               *)
(***************************************************************************)
Chr(s, i) == SubSeq(s, i, i)

Uppers == "ABCDEFGHIJKLMNOPQRSTUVWXYZÁÉÍÓÚÑ"
Lowers == "abcdefghijklmnopqrstuvwxyzáéíóúñ"
Digits == "0123456789"

UpperSet == {Chr(Uppers, i) : i \in 1..Len(Uppers)}
LowerSet == {Chr(Lowers, i) : i \in 1..Len(Lowers)}
DigitSet == {Chr(Digits, i) : i \in 1..Len(Digits)}
SpaceSet == {" ", "\n", "\t"}

LowerMap == [c \in UpperSet |-> Chr(Lowers, CHOOSE i \in 1..Len(Uppers) : Chr(Uppers, i) = c)]
DigitMap == [c \in DigitSet |-> (CHOOSE i \in 1..Len(Digits) : Chr(Digits, i) = c) - 1]

\* s with every character c replaced by f[c] when c is in the domain of f
\* (computed by halves, which keeps the nesting shallow on long texts).
RECURSIVE MapChars(_, _)
MapChars(s, f) ==
    IF s = "" THEN ""
    ELSE IF Len(s) = 1 THEN (IF s \in DOMAIN f THEN f[s] ELSE s)
    ELSE MapChars(SubSeq(s, 1, Len(s) \div 2), f)
         \o MapChars(SubSeq(s, (Len(s) \div 2) + 1, Len(s)), f)

\* str.lower(): letters change case, accents stay.
Lower(s) == MapChars(s, LowerMap)

\* `sub in s`
Contains(sub, s) ==
    \E i \in 1..(Len(s) - Len(sub) + 1) : SubSeq(s, i, i + Len(sub) - 1) = sub

\* str.strip()
RECURSIVE LStrip(_)
LStrip(s) ==
    IF s /= "" /\ Chr(s, 1) \in SpaceSet THEN LStrip(SubSeq(s, 2, Len(s))) ELSE s
RECURSIVE RStrip(_)
RStrip(s) ==
    IF s /= "" /\ Chr(s, Len(s)) \in SpaceSet THEN RStrip(SubSeq(s, 1, Len(s) - 1)) ELSE s
Strip(s) == RStrip(LStrip(s))

\* str.isdigit()
IsDigitStr(s) == s /= "" /\ \A i \in 1..Len(s) : Chr(s, i) \in DigitSet

\* str.isalnum() over the letters and digits the inputs use
IsAlnumStr(s) ==
    s /= "" /\ \A i \in 1..Len(s) : Chr(s, i) \in (DigitSet \cup UpperSet \cup LowerSet)

\* str.replace(c, '') for a one-character c
RemoveChar(s, c) == MapChars(s, [x \in {c} |-> ""])

\* int(s) for a string of digits
RECURSIVE ToInt(_)
ToInt(s) ==
    IF s = "" THEN 0
    ELSE 10 * ToInt(SubSeq(s, 1, Len(s) - 1)) + DigitMap[Chr(s, Len(s))]

\* str.split(sep) for a one-character sep: the pieces between separators.
RECURSIVE SplitOn(_, _)
SplitOn(s, sep) ==
    IF \E i \in 1..Len(s) : Chr(s, i) = sep
    THEN LET k == CHOOSE i \in 1..Len(s) :
                    Chr(s, i) = sep /\ \A j \in 1..(i - 1) : Chr(s, j) /= sep
         IN <<SubSeq(s, 1, k - 1)>> \o SplitOn(SubSeq(s, k + 1, Len(s)), sep)
    ELSE <<s>>

\* str.split(): the maximal runs of non-whitespace characters.
RECURSIVE SplitWords(_)
SplitWords(s) ==
    LET t == LStrip(s)
    IN IF t = "" THEN <<>>
       ELSE IF \E i \in 1..Len(t) : Chr(t, i) \in SpaceSet
       THEN LET k == CHOOSE i \in 1..Len(t) :
                       Chr(t, i) \in SpaceSet /\ \A j \in 1..(i - 1) : Chr(t, j) \notin SpaceSet
            IN <<SubSeq(t, 1, k - 1)>> \o SplitWords(SubSeq(t, k + 1, Len(t)))
       ELSE <<t>>

\* ' '.join(parts)
RECURSIVE JoinSpace(_)
JoinSpace(parts) ==
    IF parts = <<>> THEN ""
    ELSE IF Len(parts) = 1 THEN parts[1]
    ELSE parts[1] \o " " \o JoinSpace(Tail(parts))

(***************************************************************************)
(* Decimal values and float().                                             *)
(***************************************************************************)
RECURSIVE Pow10(_)
Pow10(k) == IF k = 0 THEN 1 ELSE 10 * Pow10(k - 1)

RECURSIVE MkDec(_, _)
MkDec(n, d) == IF d > 0 /\ n % 10 = 0 THEN MkDec(n \div 10, d - 1) ELSE <<n, d>>

DecOfInt(k) == <<k, 0>>
DecLess(a, b) == a[1] * Pow10(b[2]) < b[1] * Pow10(a[2])

\* the values the code compares against
Dec26 == DecOfInt(26)
Dec11 == DecOfInt(11)
Dec100 == DecOfInt(100)
DecCent == MkDec(1, 2)

\* float(s) for the plain decimal forms [sign] digits [. digits] and
\* [sign] . digits; every other string is a ValueError, returned as
\* NoneNum (the exponent, inf/nan and underscore forms are not among the
\* inputs of this model).
ParseFloat(s) ==
    LET Signed(neg, mag, places) == MkDec(IF neg THEN 0 - mag ELSE mag, places)
        FromDigits(neg, ip, fp) ==
            IF /\ ip \o fp /= ""
               /\ \A i \in 1..Len(ip) : Chr(ip, i) \in DigitSet
               /\ \A i \in 1..Len(fp) : Chr(fp, i) \in DigitSet
            THEN Signed(neg, ToInt(ip \o fp), Len(fp)) ELSE NoneNum
        FromParts(neg, parts) ==
            IF Len(parts) > 2 THEN NoneNum
            ELSE FromDigits(neg, parts[1], IF Len(parts) = 2 THEN parts[2] ELSE "")
    IN FromParts(s /= "" /\ Chr(s, 1) = "-",
                 SplitOn(IF s /= "" /\ Chr(s, 1) \in {"-", "+"} THEN SubSeq(s, 2, Len(s)) ELSE s,
                         "."))

\* round(x, 2): decimals of at most two places are returned unchanged; the
\* cleaners below never hand it more than two places.
Round2(x) == x

(***************************************************************************)
(* ColpensionesPDFExtractor: the field normalizers.                        *)
(***************************************************************************)
IsLeap(y) == (y % 4 = 0 /\ y % 100 /= 0) \/ y % 400 = 0
DaysInMonth(y, m) ==
    IF m = 2 THEN (IF IsLeap(y) THEN 29 ELSE 28)
    ELSE IF m \in {4, 6, 9, 11} THEN 30 ELSE 31

\* datetime(year, month, day) raises ValueError unless the date exists.
ValidDate(y, m, d) ==
    /\ y >= 1 /\ y <= 9999
    /\ m >= 1 /\ m <= 12
    /\ d >= 1 /\ d <= DaysInMonth(y, m)

RECURSIVE ZeroPad(_, _)
ZeroPad(s, w) == IF Len(s) >= w THEN s ELSE ZeroPad("0" \o s, w)

RECURSIVE IntToStr(_)
IntToStr(k) ==
    IF k < 10 THEN Chr(Digits, k + 1)
    ELSE IntToStr(k \div 10) \o Chr(Digits, (k % 10) + 1)

\* strftime('%Y-%m-%d').  For years below 1000 the C library decides whether
\* %Y is padded with zeros to four digits (glibc writes 999, others 0999):
\* `padded` is what the library of the build does.
FormatDate(y, m, d, padded) ==
    (IF padded THEN ZeroPad(IntToStr(y), 4) ELSE IntToStr(y))
        \o "-" \o ZeroPad(IntToStr(m), 2) \o "-" \o ZeroPad(IntToStr(d), 2)

\* The length of the digit run \d{lo,hi} takes at position p when the
\* character `after` must follow it (0 when the pattern cannot match there).
RunBefore(s, p, lo, hi, after) ==
    LET fits == {k \in lo..hi :
                    /\ p + k <= Len(s)
                    /\ \A i \in p..(p + k - 1) : Chr(s, i) \in DigitSet
                    /\ Chr(s, p + k) = after}
    IN IF fits = {} THEN 0 ELSE CHOOSE k \in fits : \A j \in fits : j <= k

\* The greedy length of a final digit run \d{lo,hi} at position p.
RunLast(s, p, lo, hi) ==
    LET fits == {k \in lo..hi :
                    /\ p + k - 1 <= Len(s)
                    /\ \A i \in p..(p + k - 1) : Chr(s, i) \in DigitSet}
    IN IF fits = {} THEN 0 ELSE CHOOSE k \in fits : \A j \in fits : j <= k

\* pattern.match(date_str) for (\d{1,2})<sep>(\d{1,2})<sep>(\d{4}):
\* <<day, month, year>> or <<>>.
MatchDayFirst(s, sep) ==
    LET Year(a, b) ==
            IF b = 0 \/ RunLast(s, a + b + 3, 4, 4) = 0 THEN <<>>
            ELSE <<ToInt(SubSeq(s, 1, a)), ToInt(SubSeq(s, a + 2, a + b + 1)),
                   ToInt(SubSeq(s, a + b + 3, a + b + 6))>>
        Month(a) == IF a = 0 THEN <<>> ELSE Year(a, RunBefore(s, a + 2, 1, 2, sep))
    IN Month(RunBefore(s, 1, 1, 2, sep))

\* pattern.match(date_str) for (\d{4})-(\d{1,2})-(\d{1,2}): <<year, month, day>>.
MatchYearFirst(s) ==
    LET Day(b, c) ==
            IF c = 0 THEN <<>>
            ELSE <<ToInt(SubSeq(s, 1, 4)), ToInt(SubSeq(s, 6, b + 5)),
                   ToInt(SubSeq(s, b + 7, b + c + 6))>>
        Month(b) == IF b = 0 THEN <<>> ELSE Day(b, RunLast(s, b + 7, 1, 2))
    IN IF RunBefore(s, 1, 4, 4, "-") = 0 THEN <<>> ELSE Month(RunBefore(s, 6, 1, 2, "-"))

\* The loop over date_formats: the first pattern that matches a date that
\* exists gives the result; a ValueError moves on to the next pattern.
normalize_date_on(date_str, padded) ==
    IF ~Truthy(date_str) \/ Strip(date_str) \in {"", "--", "N/A"} THEN None
    ELSE LET Dated(y, m, d) == IF ValidDate(y, m, d) THEN FormatDate(y, m, d, padded) ELSE None
             DayFirst(g) == IF g = <<>> THEN None ELSE Dated(g[3], g[2], g[1])
             YearFirst(g) == IF g = <<>> THEN None ELSE Dated(g[1], g[2], g[3])
             FirstOf(d1, d2, d3) == IF d1 /= None THEN d1 ELSE IF d2 /= None THEN d2 ELSE d3
         IN FirstOf(DayFirst(MatchDayFirst(Strip(date_str), "/")),
                    DayFirst(MatchDayFirst(Strip(date_str), "-")),
                    YearFirst(MatchYearFirst(Strip(date_str))))

\* normalize_date on the dates of table rows: their years have four digits,
\* which every library writes the same way.
normalize_date(date_str) == normalize_date_on(date_str, TRUE)

\* re.sub(r'[$,\s]', '', s): the dollar sign, the comma and whitespace go.
StripCurrency(s) == MapChars(s, [x \in ({"$", ","} \cup SpaceSet) |-> ""])

\* The three separator branches of clean_salary, applied to the string the
\* re.sub left.
SalarySeparators(cleaned) ==
    IF Contains(",", cleaned) /\ Contains(".", cleaned)
    THEN LET parts == SplitOn(cleaned, ",")
         IN IF Len(parts) = 2 THEN RemoveChar(parts[1], ".") \o "." \o parts[2] ELSE cleaned
    ELSE IF Contains(",", cleaned)
    THEN LET parts == SplitOn(cleaned, ",")
         IN IF Len(parts) = 2 /\ Len(parts[2]) <= 2 THEN parts[1] \o "." \o parts[2]
            ELSE RemoveChar(cleaned, ",")
    ELSE IF Contains(".", cleaned)
    THEN LET parts == SplitOn(cleaned, ".")
         IN IF Len(parts) = 2 /\ Len(parts[2]) <= 2 THEN cleaned
            ELSE RemoveChar(cleaned, ".")
    ELSE cleaned

clean_salary(salary_str) ==
    IF ~Truthy(salary_str) \/ Strip(salary_str) \in {"", "--", "N/A", "0"} THEN NoneNum
    ELSE LET Rounded(v) == IF v = NoneNum THEN NoneNum ELSE Round2(v)
         IN Rounded(ParseFloat(SalarySeparators(StripCurrency(Strip(salary_str)))))

\* The three separator branches of clean_numeric_colombian, applied to the
\* string the strip().replace(' ', '') left.
ColombianSeparators(cleaned) ==
    IF Contains(",", cleaned) /\ Contains(".", cleaned)
    THEN LET parts == SplitOn(cleaned, ",")
         IN IF Len(parts) = 2 THEN RemoveChar(parts[1], ".") \o "." \o parts[2] ELSE cleaned
    ELSE IF Contains(",", cleaned)
    THEN LET parts == SplitOn(cleaned, ",")
         IN IF Len(parts) = 2 /\ Len(parts[2]) <= 3 THEN parts[1] \o "." \o parts[2]
            ELSE RemoveChar(cleaned, ",")
    ELSE IF Contains(".", cleaned)
    THEN LET parts == SplitOn(cleaned, ".")
         IN IF Len(parts) = 2 /\ Len(parts[2]) > 3 THEN parts[1] \o parts[2] ELSE cleaned
    ELSE cleaned

clean_numeric_colombian(value_str) ==
    IF ~Truthy(value_str) \/ Strip(value_str) \in {"", "--", "N/A", "0"} THEN NoneNum
    ELSE ParseFloat(ColombianSeparators(RemoveChar(Strip(value_str), " ")))

clean_numeric(value_str) == clean_numeric_colombian(value_str)

(***************************************************************************)
(* ColpensionesPDFExtractor: header matching.                              *)
(***************************************************************************)
expected_headers ==
    <<"Identificación aportante", "Nombre o razón Social", "Desde", "Hasta",
      "Último salario", "Semanas", "Licencias (Lic.)", "Simultáneos (Sim.)", "Total">>

WeeksColumns == 9
WeeksThreshold == 6

\* headers = [cell.strip() if cell else '' for cell in table[0]]
HeaderCells(table) ==
    [j \in 1..Len(table[1]) |-> IF Truthy(table[1][j]) THEN Strip(table[1][j]) ELSE ""]

\* The inner loop over the found headers, left at the first match.
HeaderMatchesExpected(expected, headers) ==
    LET expected_lower == Lower(expected)
    IN \E j \in 1..Len(headers) :
          LET header_lower == Lower(headers[j])
          IN Contains(expected_lower, header_lower) \/ Contains(header_lower, expected_lower)

\* The outer loop over the expected headers, from the i-th on.
RECURSIVE CountMatchesFrom(_, _, _)
CountMatchesFrom(expected_list, headers, i) ==
    IF i > Len(expected_list) THEN 0
    ELSE (IF HeaderMatchesExpected(expected_list[i], headers) THEN 1 ELSE 0)
         + CountMatchesFrom(expected_list, headers, i + 1)

_count_header_matches(headers) == CountMatchesFrom(expected_headers, headers, 1)

\* The test every weeks scan applies to one raw table: at least 2 rows,
\* 9 header cells, at least 6 expected headers matched.
WeeksTableMatches(table) ==
    /\ Len(table) >= 2
    /\ Len(HeaderCells(table)) = WeeksColumns
    /\ _count_header_matches(HeaderCells(table)) >= WeeksThreshold

_has_table_headers_cached(tables) ==
    \E t \in 1..Len(tables) : WeeksTableMatches(tables[t])

end_indicators ==
    <<"total semanas cotizadas", "total de semanas cotizadas", "total semanas",
      "resumen de semanas", "total general">>

\* check_for_table_end deciding on the page text alone, whatever tables the
\* page holds.
check_for_table_end_by_text(tables, text) ==
    /\ Truthy(text)
    /\ \E k \in 1..Len(end_indicators) : Contains(end_indicators[k], Lower(text))

\* check_for_table_end(page, tables_cache) on a page with these tables and text.
check_for_table_end(tables, text) ==
    LET has_valid_table == \E t \in 1..Len(tables) : WeeksTableMatches(tables[t])
    IN IF has_valid_table THEN FALSE
       ELSE /\ Truthy(text)
            /\ \E k \in 1..Len(end_indicators) : Contains(end_indicators[k], Lower(text))

(***************************************************************************)
(* ColpensionesPDFExtractor: row classification and record building.       *)
(***************************************************************************)
\* the row classifiers with no word marking a totals row
no_total_indicators == <<>>

total_indicators == <<"total", "suma", "resumen", "subtotal", "gran total">>

weeks_header_indicators ==
    <<"[1] identificación", "identificación aportante", "identificacion aportante",
      "identificación", "identificacion">>

\* first_cell = str(row[0]).strip() if row[0] else ''
FirstCell(row) == IF Truthy(row[1]) THEN Strip(row[1]) ELSE ""

ContainsAny(indicators, s) == \E k \in 1..Len(indicators) : Contains(indicators[k], s)

is_data_row(row) ==
    IF Len(row) < 3 THEN FALSE
    ELSE LET Classify(first_cell) ==
                 IF ContainsAny(total_indicators, Lower(first_cell)) THEN FALSE
                 ELSE IF ContainsAny(weeks_header_indicators, Lower(first_cell)) THEN FALSE
                 ELSE IF first_cell = "" THEN FALSE
                 ELSE IF Len(first_cell) < 2 THEN FALSE
                 ELSE IF IsDigitStr(first_cell) /\ Len(first_cell) >= 6 THEN TRUE
                 ELSE IF IsAlnumStr(RemoveChar(RemoveChar(RemoveChar(first_cell, " "), "-"), "."))
                      THEN TRUE
                 ELSE TRUE
         IN Classify(FirstCell(row))

\* None stands for "no record".
NoRecord == [none |-> TRUE]

\* a cleaning that fills a missing cell with a placeholder
StripOrPlaceholder(cell) == IF Truthy(cell) /\ Strip(cell) /= "" THEN Strip(cell) ELSE "?"

StripOrNone(cell) == IF Truthy(cell) THEN Strip(cell) ELSE None

\* a builder that reads the first 9 cells of any row that has them
clean_row_data_first_nine(row) ==
    IF Len(row) < 9 THEN NoRecord
    ELSE [none |-> FALSE,
          cont_id |-> StripOrNone(row[1]),
          cont_name |-> StripOrNone(row[2]),
          cont_from |-> normalize_date(row[3]),
          cont_to |-> normalize_date(row[4]),
          cont_last_salary |-> clean_salary(row[5]),
          cont_weeks |-> clean_numeric(row[6]),
          cont_deduction_weeks |-> clean_numeric(row[7]),
          sim_weeks |-> clean_numeric(row[8]),
          net_weeks |-> clean_numeric(row[9])]

clean_row_data(row) ==
    IF Len(row) /= 9 THEN NoRecord
    ELSE [none |-> FALSE,
          cont_id |-> StripOrNone(row[1]),
          cont_name |-> StripOrNone(row[2]),
          cont_from |-> normalize_date(row[3]),
          cont_to |-> normalize_date(row[4]),
          cont_last_salary |-> clean_salary(row[5]),
          cont_weeks |-> clean_numeric(row[6]),
          cont_deduction_weeks |-> clean_numeric(row[7]),
          sim_weeks |-> clean_numeric(row[8]),
          net_weeks |-> clean_numeric(row[9])]

\* `if row and any(cell for cell in row)`
RowNonEmpty(row) == \E j \in 1..Len(row) : Truthy(row[j])

\* What the row loop of the weeks drivers does with a row it classifies.
WeeksRowVerdict(row) ==
    IF ~is_data_row(row) THEN "not_data"
    ELSE IF clean_row_data(row) = NoRecord THEN "no_record" ELSE "record"

\* The rows of table[start_row:] the weeks drivers hand to is_data_row, each
\* with what became of it.
WeeksClassifiedRows(table, start) ==
    {<<r, WeeksRowVerdict(table[r])>> : r \in {q \in start..Len(table) : RowNonEmpty(table[q])}}

\* The row loop of the weeks drivers: the records appended for rows r..end.
RECURSIVE WeeksRowRecords(_, _)
WeeksRowRecords(table, r) ==
    IF r > Len(table) THEN <<>>
    ELSE LET Appended(cleaned_row) == IF cleaned_row /= NoRecord THEN <<cleaned_row>> ELSE <<>>
         IN (IF RowNonEmpty(table[r]) /\ is_data_row(table[r])
             THEN Appended(clean_row_data(table[r])) ELSE <<>>)
            \o WeeksRowRecords(table, r + 1)

(***************************************************************************)
(* ColpensionesPDFExtractor: the free-text summary miners.                 *)
(***************************************************************************)
\* The last index of the maximal digit run that starts at p.
DigitRunEnd(s, p) ==
    CHOOSE e \in p..Len(s) :
        /\ \A i \in p..e : Chr(s, i) \in DigitSet
        /\ (e = Len(s) \/ Chr(s, e + 1) \notin DigitSet)

IsDigitAt(s, p) == p >= 1 /\ p <= Len(s) /\ Chr(s, p) \in DigitSet

\* The end of the longest run of groups \.\d{3} that starts at q (q - 1 when
\* there is none).
RECURSIVE GroupsEnd(_, _)
GroupsEnd(s, q) ==
    IF q + 3 <= Len(s) /\ Chr(s, q) = "." /\ IsDigitAt(s, q + 1)
       /\ IsDigitAt(s, q + 2) /\ IsDigitAt(s, q + 3)
    THEN GroupsEnd(s, q + 4) ELSE q - 1

\* ,\d{2} at position q
CommaTwoAt(s, q) == q + 2 <= Len(s) /\ Chr(s, q) = "," /\ IsDigitAt(s, q + 1) /\ IsDigitAt(s, q + 2)

\* The compiled patterns, each as the end index of its match at position p
\* (0 when it does not match there).
\*   "comma"      (\d+,\d{2})                    summary_numeric_comma, colombian_number_simple
\*   "digits"     (\d+)                          summary_numeric_digits
\*   "full"       (\d{1,3}(?:\.\d{3})*,\d{2})    colombian_number_full
\*   "4plus"      (\d{4,},\d{2})                 colombian_number_4plus
\*   "nodecimal"  (\d{1,3}(?:\.\d{3})*)          colombian_number_no_decimal
\*   "4plusnodec" (\d{4,})                       colombian_number_4plus_no_decimal
MatchEnd(pat, s, p) ==
    IF ~IsDigitAt(s, p) THEN 0
    ELSE LET Grouped(g) ==
                 IF IsDigitAt(s, g + 1) THEN 0
                 ELSE IF CommaTwoAt(s, g + 1) THEN g + 3 ELSE 0
             Run(e, run) ==
                 CASE pat = "comma" -> IF CommaTwoAt(s, e + 1) THEN e + 3 ELSE 0
                   [] pat = "digits" -> e
                   [] pat = "full" -> IF run > 3 THEN 0 ELSE Grouped(GroupsEnd(s, e + 1))
                   [] pat = "4plus" -> IF run >= 4 /\ CommaTwoAt(s, e + 1) THEN e + 3 ELSE 0
                   [] pat = "nodecimal" -> IF run > 3 THEN p + 2 ELSE GroupsEnd(s, e + 1)
                   [] pat = "4plusnodec" -> IF run >= 4 THEN e ELSE 0
             RunTo(e) == Run(e, e - p + 1)
         IN RunTo(DigitRunEnd(s, p))

\* pattern.findall(line): the non-overlapping matches from position p on.
RECURSIVE FindAll(_, _, _)
FindAll(pat, s, p) ==
    LET Taken(m) == <<SubSeq(s, m[1], m[2])>> \o FindAll(pat, s, m[2] + 1)
        Leftmost(found) ==
            IF found = {} THEN <<>>
            ELSE Taken(CHOOSE m \in found : \A n \in found : m[1] <= n[1])
    IN Leftmost({m \in {<<q, MatchEnd(pat, s, q)>> : q \in p..Len(s)} : m[2] /= 0})

\* header_flag ^\s*\[\d+\]\s*$ against line.strip()
IsHeaderFlag(line) ==
    LET t == Strip(line)
    IN /\ Len(t) >= 3
       /\ Chr(t, 1) = "[" /\ Chr(t, Len(t)) = "]"
       /\ IsDigitStr(SubSeq(t, 2, Len(t) - 1))

\* str.replace(',', '.')
CommaToDot(s) == MapChars(s, [x \in {","} |-> "."])

\* extract_summary_numeric: comma is the decimal separator.
SummaryStandardValue(value_str) ==
    IF Contains(",", value_str) THEN CommaToDot(value_str) ELSE value_str

\* extract_numeric_from_line: the Colombian separators.
ColombianStandardValue(value_str) ==
    IF Contains(",", value_str) /\ Contains(".", value_str)
    THEN LET parts == SplitOn(value_str, ",")
         IN RemoveChar(parts[1], ".") \o "." \o parts[2]
    ELSE IF Contains(",", value_str)
    THEN LET parts == SplitOn(value_str, ",")
         IN IF Len(parts) = 2 /\ Len(parts[2]) <= 2 THEN CommaToDot(value_str)
            ELSE RemoveChar(value_str, ",")
    ELSE IF Contains(".", value_str)
    THEN LET parts == SplitOn(value_str, ".")
         IN IF Len(parts) = 2 /\ Len(parts[2]) <= 2 THEN value_str
            ELSE RemoveChar(value_str, ".")
    ELSE value_str

\* The loop over the patterns, from the k-th on; colombian says which
\* conversion the caller applies to the last match.
RECURSIVE NumericFromPatterns(_, _, _, _)
NumericFromPatterns(line, patterns, k, colombian) ==
    IF k > Len(patterns) THEN NoneNum
    ELSE LET Checked(result, rest) == IF DecLess(result, DecCent) THEN rest ELSE result
             Converted(value_str, rest) ==
                 IF Len(value_str) <= 2 /\ IsDigitStr(value_str) THEN rest
                 ELSE Checked(ParseFloat(IF colombian THEN ColombianStandardValue(value_str)
                                         ELSE SummaryStandardValue(value_str)),
                              rest)
             LastOf(matches, rest) ==
                 IF matches = <<>> THEN rest ELSE Converted(matches[Len(matches)], rest)
         IN LastOf(FindAll(patterns[k], line, 1),
                   NumericFromPatterns(line, patterns, k + 1, colombian))

extract_summary_numeric(line) ==
    IF IsHeaderFlag(line) THEN NoneNum
    ELSE NumericFromPatterns(line, <<"comma", "digits">>, 1, FALSE)

extract_numeric_from_line(line) ==
    IF IsHeaderFlag(line) THEN NoneNum
    ELSE NumericFromPatterns(line,
            <<"full", "4plus", "comma", "nodecimal", "4plusnodec", "digits">>, 1, TRUE)

TotalLookahead == 4
HighRiskLookahead == 2
NoSummary == [weeks_total_report |-> NoneNum, weeks_high_risk |-> NoneNum]

\* a lookahead that takes any value it reads
AnyTotal(value) == value /= NoneNum

\* value is not None and value != 26.0 and value > 100
PlausibleTotal(value) == value /= NoneNum /\ value /= Dec26 /\ DecLess(Dec100, value)

\* a lookahead over the next TotalLookahead non-blank lines, however many
\* blank lines lie between them
TotalFromNonBlankLines(lines, i) ==
    LET FirstOf(hits) ==
            IF hits = {} THEN NoneNum
            ELSE (CHOOSE h \in hits : \A g \in hits : h[1] <= g[1])[2]
        NonBlank(a, b) == Cardinality({q \in a..b : Strip(lines[q]) /= ""})
        window == {j \in (i + 1)..Len(lines) :
                      Strip(lines[j]) /= "" /\ NonBlank(i + 1, j) <= TotalLookahead}
    IN FirstOf({h \in {<<j, extract_summary_numeric(Strip(lines[j]))>> : j \in window} :
                   h[2] /= NoneNum /\ h[2] /= Dec26 /\ DecLess(Dec100, h[2])})

\* The lookahead of the [26] branch: the lines range(i + 1, min(i + 5, len(lines))),
\* blank ones skipped, left at the first plausible value.
TotalFromNextLines(lines, i) ==
    LET FirstOf(hits) ==
            IF hits = {} THEN NoneNum
            ELSE (CHOOSE h \in hits : \A g \in hits : h[1] <= g[1])[2]
        window == {j \in (i + 1)..(i + TotalLookahead) :
                      j <= Len(lines) /\ Strip(lines[j]) /= ""}
    IN FirstOf({h \in {<<j, extract_summary_numeric(Strip(lines[j]))>> : j \in window} :
                   PlausibleTotal(h[2])})

\* The lookahead of the [11] branch: range(i + 1, min(i + 3, len(lines))).
HighRiskFromNextLines(lines, i) ==
    LET FirstOf(hits) ==
            IF hits = {} THEN NoneNum
            ELSE (CHOOSE h \in hits : \A g \in hits : h[1] <= g[1])[2]
        window == {j \in (i + 1)..(i + HighRiskLookahead) :
                      j <= Len(lines) /\ Strip(lines[j]) /= ""}
    IN FirstOf({h \in {<<j, extract_numeric_from_line(Strip(lines[j]))>> : j \in window} :
                   h[2] /= NoneNum /\ h[2] /= Dec11})

\* if '[26]' in line and 'total semanas' in line.lower()
IsMarkedTotalLine(line) == Contains("[26]", line) /\ Contains("total semanas", Lower(line))

\* One pass of `for i, line in enumerate(lines)` over line i, from the
\* summary_values sv held so far.
SummaryLineStep(lines, i, sv) ==
    LET TotalSet(value) ==
            IF value /= NoneNum THEN [sv EXCEPT !.weeks_total_report = value] ELSE sv
        HighRiskSet(value) ==
            IF value /= NoneNum THEN [sv EXCEPT !.weeks_high_risk = value] ELSE sv
        Marked(value) ==
            IF value /= NoneNum /\ value /= Dec26 THEN TotalSet(value)
            ELSE TotalSet(TotalFromNextLines(lines, i))
        Unmarked(value) ==
            IF value /= NoneNum /\ DecLess(Dec100, value) THEN TotalSet(value) ELSE sv
        HighRisk(value) ==
            IF value /= NoneNum /\ value /= Dec11 THEN HighRiskSet(value)
            ELSE HighRiskSet(HighRiskFromNextLines(lines, i))
        Step(line) ==
            IF IsMarkedTotalLine(line) THEN Marked(extract_summary_numeric(line))
            ELSE IF Contains("total semanas", Lower(line))
                    /\ (sv.weeks_total_report = NoneNum \/ sv.weeks_total_report = DecOfInt(0))
            THEN Unmarked(extract_summary_numeric(line))
            ELSE IF Contains("[11]", line)
                    /\ Contains("semanas cotizadas con tarifa de alto riesgo", Lower(line))
            THEN HighRisk(extract_numeric_from_line(line))
            ELSE sv
    IN Step(Strip(lines[i]))

RECURSIVE SummaryLinesFrom(_, _, _)
SummaryLinesFrom(lines, i, sv) ==
    IF i > Len(lines) THEN sv
    ELSE SummaryLinesFrom(lines, i + 1, SummaryLineStep(lines, i, sv))

extract_summary_values(text) ==
    IF ~Truthy(text) THEN NoSummary
    ELSE SummaryLinesFrom(SplitOn(text, "\n"), 1, NoSummary)

\* Which branch of the loop made the last assignment to weeks_total_report:
\* TRUE when it was the [26] branch, FALSE when it was the branch of the
\* unmarked "total semanas" lines (`marked` while nothing was assigned).
RECURSIVE TotalMarkedFrom(_, _, _, _)
TotalMarkedFrom(lines, i, sv, marked) ==
    IF i > Len(lines) THEN marked
    ELSE LET MarkedAssigns(value) ==
                 \/ value /= NoneNum /\ value /= Dec26
                 \/ TotalFromNextLines(lines, i) /= NoneNum
             UnmarkedAssigns(value) == value /= NoneNum /\ DecLess(Dec100, value)
             After(line) ==
                 IF IsMarkedTotalLine(line)
                 THEN marked \/ MarkedAssigns(extract_summary_numeric(line))
                 ELSE IF Contains("total semanas", Lower(line))
                         /\ (sv.weeks_total_report = NoneNum
                             \/ sv.weeks_total_report = DecOfInt(0))
                 THEN marked /\ ~UnmarkedAssigns(extract_summary_numeric(line))
                 ELSE marked
         IN TotalMarkedFrom(lines, i + 1, SummaryLineStep(lines, i, sv), After(Strip(lines[i])))

\* the weeks_total_report of a page comes from a line carrying the [26] marker
total_from_marked_line(text) ==
    /\ Truthy(text)
    /\ TotalMarkedFrom(SplitOn(text, "\n"), 1, NoSummary, FALSE)

(***************************************************************************)
(* ColpensionesPost1995PaymentsExtractor: normalizers.                     *)
(***************************************************************************)
\* a normalize_period that takes any two digits for a month
normalize_period_any_month(period_str) ==
    IF ~Truthy(period_str) \/ Strip(period_str) \in {"", "--", "N/A"} THEN None
    ELSE LET s == Strip(period_str)
         IN IF RunLast(s, 1, 6, 6) = 6
            THEN SubSeq(s, 1, 4) \o "-" \o SubSeq(s, 5, 6)
            ELSE None

\* period_yyyymm (\d{4})(\d{2}) matched at the start of the string.
normalize_period(period_str) ==
    IF ~Truthy(period_str) \/ Strip(period_str) \in {"", "--", "N/A"} THEN None
    ELSE LET s == Strip(period_str)
         IN IF RunLast(s, 1, 6, 6) = 6
               /\ ToInt(SubSeq(s, 5, 6)) >= 1 /\ ToInt(SubSeq(s, 5, 6)) <= 12
            THEN SubSeq(s, 1, 4) \o "-" \o SubSeq(s, 5, 6)
            ELSE None

clean_ibc_value(ibc_str) ==
    IF ~Truthy(ibc_str) \/ Strip(ibc_str) \in {"", "--", "N/A", "0"} THEN NoneNum
    ELSE LET Rounded(v) == IF v = NoneNum THEN NoneNum ELSE Round2(v)
         IN Rounded(ParseFloat(RemoveChar(StripCurrency(Strip(ibc_str)), ".")))

\* int(s) for [sign] digits; every other string is a ValueError.
ParseInt(s) ==
    LET body == IF s /= "" /\ Chr(s, 1) \in {"-", "+"} THEN SubSeq(s, 2, Len(s)) ELSE s
    IN IF IsDigitStr(body)
       THEN <<IF Chr(s, 1) = "-" THEN 0 - ToInt(body) ELSE ToInt(body)>>
       ELSE NoneNum

clean_days_value(days_str) ==
    IF ~Truthy(days_str) \/ Strip(days_str) \in {"", "--", "N/A", "0"} THEN NoneNum
    ELSE ParseInt(Strip(days_str))

(***************************************************************************)
(* ColpensionesPost1995PaymentsExtractor: header matching.                 *)
(***************************************************************************)
payments_expected_headers ==
    <<"Identificación Aportante", "Nombre o Razón Social", "RA", "Período",
      "Fecha De Pago", "Referencia de Pago", "IBC Reportado", "Cotización Pagada",
      "Cotización Mora Sin Intereses", "Nov.", "Días Rep.", "Días Cot.", "Observación">>

header_patterns ==
    <<"[34] Identificación Aportante", "[35] Nombre o Razón Social", "[36] RA",
      "[37] Período", "[38] Fecha De Pago", "[39] Referencia de Pago",
      "[40] IBC Reportado", "[41] Cotización Pagada",
      "[42] Cotización Mora Sin Intereses", "[43] Nov.", "[44] Días Rep.",
      "[45] Días Cot.", "[46] Observación">>

header_tags ==
    {"[34]", "[35]", "[36]", "[37]", "[38]", "[39]", "[40]", "[41]", "[42]", "[43]",
     "[44]", "[45]", "[46]"}

payments_keywords ==
    <<"pago", "ibc", "días", "período", "fecha", "detalle", "posterior", "efectuados">>

payments_titles == <<"detalle de pagos", "pagos efectuados", "posterior a 1995">>

PaymentsColumns == 13
PaymentsThreshold == 8
KeywordThreshold == 4

\* Method 1: the headers that hold, at their own position, a word of the
\* numbered pattern.
NumberedMatches(headers) ==
    Cardinality({i \in 1..Len(headers) :
        /\ i <= Len(header_patterns)
        /\ LET parts == SplitWords(Lower(header_patterns[i]))
           IN \E k \in 1..Len(parts) :
                 parts[k] \notin header_tags /\ Contains(parts[k], Lower(headers[i]))})

\* Method 3: the payments keywords found in the joined header text.
FoundKeywords(headers) ==
    Cardinality({k \in 1..Len(payments_keywords) :
        Contains(payments_keywords[k], Lower(JoinSpace(headers)))})

\* is_payments_table by the column count and the matched labels alone
IsPaymentsHeaderByLabels(headers) ==
    /\ Len(headers) = PaymentsColumns
    /\ CountMatchesFrom(payments_expected_headers, headers, 1) >= PaymentsThreshold

\* is_payments_table for a table of at least 2 rows: methods 1 to 4.
IsPaymentsHeader(headers) ==
    \/ Len(headers) = PaymentsColumns /\ NumberedMatches(headers) >= PaymentsThreshold
    \/ /\ Len(headers) = PaymentsColumns
       /\ CountMatchesFrom(payments_expected_headers, headers, 1) >= PaymentsThreshold
    \/ FoundKeywords(headers) >= KeywordThreshold
    \/ ContainsAny(payments_titles, Lower(JoinSpace(headers)))

PaymentsTableMatches(table) ==
    Len(table) >= 2 /\ IsPaymentsHeader(HeaderCells(table))

(***************************************************************************)
(* ColpensionesPost1995PaymentsExtractor: rows.                            *)
(***************************************************************************)
payments_header_indicators ==
    <<"[34] identificación", "[35] nombre", "[36] ra", "[37] período", "[38] fecha",
      "[39] referencia", "[40] ibc", "[41] cotización", "[42] mora", "[43] nov",
      "[44] días rep", "[45] días cot", "[46] observación",
      "identificación aportante", "identificacion aportante",
      "identificación empleador", "identificacion empleador",
      "nombre o razón", "nombre o razon", "período", "periodo", "fecha de pago",
      "ibc reportado", "días rep", "dias rep", "días cot", "dias cot">>

\* [part.strip().lower() for part in s.split('\n')]
LineParts(s) ==
    LET parts == SplitOn(s, "\n") IN [k \in 1..Len(parts) |-> Lower(Strip(parts[k]))]

\* the cells among row[:3] that hold a header indicator
HeaderCount(row) ==
    Cardinality({j \in 1..Len(row) :
        j <= 3 /\ Truthy(row[j])
        /\ ContainsAny(payments_header_indicators, Lower(Strip(row[j])))})

NoneCount(row) ==
    Cardinality({j \in 1..Len(row) :
        row[j] = None \/ Strip(row[j]) \in {"", "None", "NaN", "nan"}})

payments_is_data_row(row) ==
    IF Len(row) < 3 THEN FALSE
    ELSE LET AnyPart(parts) ==
                 \E k \in 1..Len(parts) : ContainsAny(payments_header_indicators, parts[k])
             AnyTaggedPart(parts) ==
                 \E k \in 1..Len(parts) :
                    /\ \E tag \in header_tags : Contains(tag, parts[k])
                    /\ ContainsAny(payments_header_indicators, parts[k])
             Classify(first_cell, header_count) ==
                 IF ContainsAny(total_indicators, Lower(first_cell)) THEN FALSE
                 ELSE IF ContainsAny(payments_header_indicators, Lower(first_cell)) THEN FALSE
                 ELSE IF Contains("\n", first_cell) /\ AnyPart(LineParts(first_cell)) THEN FALSE
                 ELSE IF \E j \in 1..Len(row) :
                            /\ Truthy(row[j]) /\ Contains("\n", row[j])
                            /\ AnyTaggedPart(LineParts(Strip(row[j])))
                      THEN FALSE
                 ELSE IF header_count >= 2 THEN FALSE
                 ELSE IF /\ Len(row) > 1 /\ first_cell = "" /\ Truthy(row[2])
                         /\ ContainsAny(payments_header_indicators, Lower(Strip(row[2])))
                      THEN FALSE
                 ELSE IF NoneCount(row) >= 3 /\ header_count >= 1 THEN FALSE
                 ELSE IF first_cell = "" THEN FALSE
                 ELSE TRUE
         IN Classify(FirstCell(row), HeaderCount(row))

\* `cell and str(cell).strip()`: the cells the flexible detection looks at.
Sniffable(cell) == Truthy(cell) /\ Strip(cell) /= ""

FirstIndex(S) == CHOOSE j \in S : \A k \in S : j <= k

RECURSIVE DropLeadingZeros(_)
DropLeadingZeros(s) ==
    IF s /= "" /\ Chr(s, 1) = "0" THEN DropLeadingZeros(SubSeq(s, 2, Len(s))) ELSE s

\* cell_str.isdigit() and 1 <= int(cell_str) <= 31, decided on the digits after
\* the leading zeros so that long reference numbers are never converted
IsDaysCell(cell) ==
    LET InRange(digits) == Len(digits) \in {1, 2} /\ ToInt(digits) >= 1 /\ ToInt(digits) <= 31
    IN /\ Sniffable(cell) /\ IsDigitStr(Strip(cell))
       /\ InRange(DropLeadingZeros(Strip(cell)))

payments_clean_row_data(row) ==
    IF Len(row) < 3 THEN NoRecord
    ELSE
    LET wide == Len(row) >= 13
        \* the positional value, then the first cell that looks like a period
        Period(positional, cells) ==
            IF positional /= None /\ positional /= "" THEN positional
            ELSE IF cells = {} THEN positional
            ELSE normalize_period(Strip(row[FirstIndex(cells)]))
        \* the positional value, then the first cell that looks like an amount
        Ibc(positional, cells) ==
            IF positional /= NoneNum /\ positional /= DecOfInt(0) THEN positional
            ELSE IF cells = {} THEN positional
            ELSE clean_ibc_value(Strip(row[FirstIndex(cells)]))
        \* the first two cells holding 1..31, taken when either positional
        \* day count is missing
        Days(rep, cot, cells) ==
            IF \/ (rep /= NoneNum /\ rep /= <<0>>) /\ (cot /= NoneNum /\ cot /= <<0>>)
               \/ cells = {}
            THEN <<rep, cot>>
            ELSE <<clean_days_value(Strip(row[FirstIndex(cells)])),
                   IF cells \ {FirstIndex(cells)} = {} THEN cot
                   ELSE clean_days_value(Strip(row[FirstIndex(cells \ {FirstIndex(cells)})]))>>
        Record(cont_id, cont_name, period, ibc, days) ==
            IF Truthy(cont_id) /\ Truthy(cont_name)
            THEN [none |-> FALSE, cont_id |-> cont_id, cont_name |-> cont_name,
                  cont_period |-> period, cont_reported_ibc |-> ibc,
                  cont_reported_days |-> days[1], cont_contributed_days |-> days[2]]
            ELSE NoRecord
    IN Record(StripOrNone(row[1]), StripOrNone(row[2]),
              Period(IF wide THEN normalize_period(row[4]) ELSE None,
                     {j \in 1..Len(row) :
                         Sniffable(row[j]) /\ Len(Strip(row[j])) = 6 /\ IsDigitStr(Strip(row[j]))}),
              Ibc(IF wide THEN clean_ibc_value(row[7]) ELSE NoneNum,
                  {j \in 1..Len(row) :
                      /\ Sniffable(row[j])
                      /\ \/ Contains("$", Strip(row[j]))
                         \/ Contains(".", Strip(row[j])) /\ Contains(",", Strip(row[j]))}),
              Days(IF wide THEN clean_days_value(row[11]) ELSE NoneNum,
                   IF wide THEN clean_days_value(row[12]) ELSE NoneNum,
                   {j \in 1..Len(row) : IsDaysCell(row[j])}))

\* The cells clean_row_data takes cont_reported_days and
\* cont_contributed_days from, as 1-based indices into the row (0: the field
\* is left None): the cells at the 13-column positions, then, when either
\* value is missing, the first cells holding 1..31.
payments_days_cells(row) ==
    LET wide == Len(row) >= 13
        Positional(j) == IF wide /\ clean_days_value(row[j]) /= NoneNum THEN j ELSE 0
        Falsy(j) == ~wide \/ clean_days_value(row[j]) \in {NoneNum, <<0>>}
        Sniffed(cells) ==
            IF ~(Falsy(11) \/ Falsy(12)) \/ cells = {}
            THEN <<Positional(11), Positional(12)>>
            ELSE <<FirstIndex(cells),
                   IF cells \ {FirstIndex(cells)} = {} THEN Positional(12)
                   ELSE FirstIndex(cells \ {FirstIndex(cells)})>>
    IN Sniffed({j \in 1..Len(row) : IsDaysCell(row[j])})

\* What the row loop of the payments driver does with a row it classifies.
PaymentsRowVerdict(row) ==
    IF ~payments_is_data_row(row) THEN "not_data"
    ELSE IF payments_clean_row_data(row) = NoRecord THEN "no_record" ELSE "record"

PaymentsClassifiedRows(table, start) ==
    {<<r, PaymentsRowVerdict(table[r])>> : r \in {q \in start..Len(table) : RowNonEmpty(table[q])}}

\* The row loop of the payments driver: the records appended for rows r..end.
RECURSIVE PaymentsRowRecords(_, _)
PaymentsRowRecords(table, r) ==
    IF r > Len(table) THEN <<>>
    ELSE LET Appended(cleaned_row) == IF cleaned_row /= NoRecord THEN <<cleaned_row>> ELSE <<>>
         IN (IF RowNonEmpty(table[r]) /\ payments_is_data_row(table[r])
             THEN Appended(payments_clean_row_data(table[r])) ELSE <<>>)
            \o PaymentsRowRecords(table, r + 1)

(***************************************************************************)
(* The documents: what the layout engine returns for each page.            *)
(***************************************************************************)
WeeksHeaderRow ==
    <<"[1] Identificación aportante", "[2] Nombre o razón Social", "[3] Desde",
      "[4] Hasta", "[5] Último salario", "[6] Semanas", "[7] Lic", "[8] Sim", "[9] Total">>

\* a header the matcher accepts (8 of 9) whose first cell is no identification label
WeeksHeaderRowNit ==
    <<"NIT", "Nombre o razón Social", "Desde", "Hasta", "Último salario", "Semanas",
      "Licencias (Lic.)", "Simultáneos (Sim.)", "Total">>

WeeksTable1 ==
    <<WeeksHeaderRow,
      <<"890326878", "ACME S.A.", "01/01/1990", "31/12/1990", "$ 41.025", "51,43", "0,00", "0,00", "51,43">>,
      <<"890326878", "ACME S.A.", "01/01/1991", "30/06/1991", "$ 51.720", "25,86", "0,00", "0,00", "25,86">>,
      <<"800112233", "TEXTILES DEL SUR LTDA", "01-07-1991", "31-12-1992", "65.190", "77,14", "1,5", "0,00", "75,64">>>>

\* a data row, a blank row, a row of 3 cells and the totals row
WeeksTable2 ==
    <<WeeksHeaderRow,
      <<"16610898", "PEREZ JUAN", "1993-01-01", "1993-12-31", "81.510", "51,43", None, "", "51,43">>,
      <<None, "", None, None, None, None, None, None, None>>,
      <<"800112233", "TEXTILES DEL SUR LTDA", "257,50">>,
      <<"TOTAL GENERAL", None, None, None, None, None, None, None, "257,50">>>>

WeeksTableNit ==
    <<WeeksHeaderRowNit,
      <<"900555111", "COOPERATIVA LA UNION", "01/01/1994", "31/12/1994", "$ 98.700", "51,43", "0,00", "0,00", "51,43">>>>

PaymentsHeaderRow ==
    <<"[34] Identificación Aportante", "[35] Nombre o Razón Social", "[36] RA",
      "[37] Período", "[38] Fecha De Pago", "[39] Referencia de Pago",
      "[40] IBC Reportado", "[41] Cotización Pagada",
      "[42] Cotización Mora Sin Intereses", "[43] Nov.", "[44] Días Rep.",
      "[45] Días Cot.", "[46] Observación">>

\* a header the matcher accepts whose first cell is no header label
PaymentsHeaderRowNit ==
    <<"NIT", "Nombre o Razón Social", "RA", "Período", "Fecha De Pago",
      "Referencia de Pago", "IBC Reportado", "Cotización Pagada",
      "Cotización Mora Sin Intereses", "Nov.", "Días Rep.", "Días Cot.", "Observación">>

\* two data rows and the totals row
PaymentsTable1 ==
    <<PaymentsHeaderRow,
      <<"16610898", "PEREZ JUAN", "SI", "199712", "15/01/1998", "70012345", "$ 471.800", "$ 63.700", "$ 0", "", "30", "30", "Pago aplicado">>,
      <<"16610898", "PEREZ JUAN", "SI", "199801", "12/02/1998", "70012399", "$ 471.800", "$ 63.700", "$ 0", None, "30", "28", None>>,
      <<"Total", None, None, None, None, None, "$ 943.600", None, None, None, None, None, None>>>>

\* a row with month 13, no amount and 45 days, and a row without a name
PaymentsTable2 ==
    <<PaymentsHeaderRow,
      <<"800112233", "TEXTILES DEL SUR LTDA", "NO", "199813", "10/03/1998", "70012501", "--", "$ 10.000", "$ 0", "R", "45", "0", "Pago incompleto">>,
      <<"16610898", None, "SI", "199802", None, None, None, None, None, None, "30", "30", None>>>>

PaymentsTableNit ==
    <<PaymentsHeaderRowNit,
      <<"900555111", "COOPERATIVA LA UNION", "SI", "199803", "11/04/1998", "70012777", "$ 496.900", "$ 67.100", "$ 0", "", "30", "30", "">>>>

\* raw tables no schema accepts
LoneHeaderTable == <<WeeksHeaderRow>>
NarrowTable == <<<<"Concepto", "Valor">>, <<"Semanas", "257,50">>>>

\* The page kinds: what extract_tables() and extract_text() return for a page.
PageKinds ==
    <<[tables |-> <<WeeksTable1>>, text |-> None],
      [tables |-> <<NarrowTable, WeeksTable2, WeeksTable1>>,
       text |-> "RESUMEN DE SEMANAS COTIZADAS\n[26] TOTAL SEMANAS:\n\n1193,00"],
      [tables |-> <<>>,
       text |-> "[11] SEMANAS COTIZADAS CON TARIFA DE ALTO RIESGO 12,50\n[26] TOTAL SEMANAS COTIZADAS\n1250,00"],
      [tables |-> <<LoneHeaderTable, NarrowTable>>, text |-> "Página 2\nFecha de corte 31/12/2020"],
      [tables |-> <<WeeksTableNit>>, text |-> ""],
      [tables |-> <<PaymentsTable1>>, text |-> "DETALLE DE PAGOS EFECTUADOS A PARTIR DE 1995"],
      [tables |-> <<NarrowTable, PaymentsTable2, PaymentsTable1>>, text |-> None],
      [tables |-> <<PaymentsTableNit>>, text |-> "[11] SEMANAS COTIZADAS CON TARIFA DE ALTO RIESGO\n[12]\n3,50"],
      [tables |-> <<WeeksTable1, PaymentsTable1>>, text |-> "TOTAL SEMANAS 1300,00"]>>

PageCount == Len(PageKinds)
MaxPages == 3

\* the documents: 1 to MaxPages pages, each one of the page kinds
Documents == UNION {[1..n -> 1..PageCount] : n \in 1..MaxPages}

\* Each pass over a page computes the same functions of the page's tables
\* and text; they are tabulated once per page kind.
\* `for table in tables`, left by break at the first table that matches: its
\* index, or 0 when no table of the page matches.
FirstOrNone(hits) == IF hits = {} THEN 0 ELSE FirstIndex(hits)

FirstWeeksTable(tables) ==
    FirstOrNone({t \in 1..Len(tables) : WeeksTableMatches(tables[t])})

FirstPaymentsTable(tables) ==
    FirstOrNone({t \in 1..Len(tables) : PaymentsTableMatches(tables[t])})

PageHasWeeksHeaders == [k \in 1..PageCount |-> _has_table_headers_cached(PageKinds[k].tables)]
PageTableEnd == [k \in 1..PageCount |-> check_for_table_end(PageKinds[k].tables, PageKinds[k].text)]
PageSummary == [k \in 1..PageCount |-> extract_summary_values(PageKinds[k].text)]
PageWeeksRecords ==
    [k \in 1..PageCount |-> [start \in 1..2 |->
        LET Of(t) == IF t = 0 THEN <<>> ELSE WeeksRowRecords(PageKinds[k].tables[t], start)
        IN Of(FirstWeeksTable(PageKinds[k].tables))]]
PageWeeksClassified ==
    [k \in 1..PageCount |-> [start \in 1..2 |->
        LET Of(t) == IF t = 0 THEN {} ELSE WeeksClassifiedRows(PageKinds[k].tables[t], start)
        IN Of(FirstWeeksTable(PageKinds[k].tables))]]
PagePaymentsTable == [k \in 1..PageCount |-> FirstPaymentsTable(PageKinds[k].tables)]
PagePaymentsRecords ==
    [k \in 1..PageCount |-> [start \in 1..2 |->
        LET Of(t) == IF t = 0 THEN <<>> ELSE PaymentsRowRecords(PageKinds[k].tables[t], start)
        IN Of(FirstPaymentsTable(PageKinds[k].tables))]]
PagePaymentsClassified ==
    [k \in 1..PageCount |-> [start \in 1..2 |->
        LET Of(t) == IF t = 0 THEN {} ELSE PaymentsClassifiedRows(PageKinds[k].tables[t], start)
        IN Of(FirstPaymentsTable(PageKinds[k].tables))]]

(***************************************************************************)
(* ColpensionesUnifiedExtractor.extract_all_from_pdf: the weeks run        *)
(* (extract_table_and_summary_from_pdf), then the payments run             *)
(* (extract_post1995_payments_from_pdf), over the same document.           *)
(***************************************************************************)
VARIABLES
    pdf,                  \* the document: the page kind of each page
    pc,                   \* "weeks", "payments" or "done"
    page_num,             \* weeks run: pages taken from pdf.pages so far
    all_rows,             \* weeks run: the records
    summary_values,       \* weeks run: the summary aggregate
    table_found,          \* weeks run
    headers_processed,    \* weeks run
    weeks_break,          \* weeks run: the page whose pass left the loop by break, or 0
    weeks_classified,     \* weeks run: <<page, row, verdict>> of every row handed to is_data_row
    p_page_num,           \* payments run: pages taken so far
    p_all_rows,           \* payments run: the records
    p_table_found,        \* payments run
    p_headers_processed,  \* payments run
    p_classified,         \* payments run: <<page, row, verdict>> of every row handed to is_data_row
    probe,                \* the input and result of a single call (the probe specifications)
    response,             \* what parse_pension_pdf answers: the three outputs or an error
    faults,               \* the calls of the layout engine that raised, as <<run, call, page>>
    calls                 \* concurrent calls: the document and the local variables of each

weeks_vars == <<page_num, all_rows, summary_values, table_found, headers_processed,
                weeks_break, weeks_classified>>
payments_vars == <<p_page_num, p_all_rows, p_table_found, p_headers_processed, p_classified>>
call_vars == <<response, faults, calls>>
vars == <<pdf, pc, weeks_vars, payments_vars, probe, call_vars>>

NoProbe == [kind |-> "none"]
NoResponse == [status |-> "pending"]

InitRuns ==
    /\ page_num = 0
    /\ all_rows = <<>>
    /\ summary_values = NoSummary
    /\ table_found = FALSE
    /\ headers_processed = FALSE
    /\ weeks_break = 0
    /\ weeks_classified = {}
    /\ p_page_num = 0
    /\ p_all_rows = <<>>
    /\ p_table_found = FALSE
    /\ p_headers_processed = FALSE
    /\ p_classified = {}
    /\ response = NoResponse
    /\ faults = {}

Init ==
    /\ pdf \in Documents
    /\ pc = "weeks"
    /\ InitRuns
    /\ calls = <<>>
    /\ probe = NoProbe

\* an aggregate that keeps the first value mined for each field
MergeSummaryFirstWins(sv, page_summary) ==
    [weeks_total_report |->
        IF sv.weeks_total_report = NoneNum
        THEN page_summary.weeks_total_report ELSE sv.weeks_total_report,
     weeks_high_risk |->
        IF sv.weeks_high_risk = NoneNum
        THEN page_summary.weeks_high_risk ELSE sv.weeks_high_risk]

\* if page_summary[...] is not None: summary_values[...] = page_summary[...]
MergeSummary(sv, page_summary) ==
    [weeks_total_report |->
        IF page_summary.weeks_total_report /= NoneNum
        THEN page_summary.weeks_total_report ELSE sv.weeks_total_report,
     weeks_high_risk |->
        IF page_summary.weeks_high_risk /= NoneNum
        THEN page_summary.weeks_high_risk ELSE sv.weeks_high_risk]

\* a row loop that skips the first row of every accepted table
StartRowAfterHeader(processed) == 2

\* start_row = 1 if not headers_processed else 0, as a 1-based row index
StartRow(processed) == IF processed THEN 1 ELSE 2

\* A page without weeks headers before any table was found, in a run that
\* mines no summary on such a page.
WeeksSkipPageUnmined ==
    /\ pc = "weeks" /\ page_num < Len(pdf)
    /\ ~PageHasWeeksHeaders[pdf[page_num + 1]]
    /\ ~table_found
    /\ page_num' = page_num + 1
    /\ UNCHANGED <<call_vars, pdf, pc, all_rows, summary_values, table_found, headers_processed,
                   weeks_break, weeks_classified, payments_vars, probe>>

\* A page without weeks headers before any table was found: its summary is
\* mined and the loop continues.
WeeksSkipPage ==
    /\ pc = "weeks" /\ page_num < Len(pdf)
    /\ ~PageHasWeeksHeaders[pdf[page_num + 1]]
    /\ ~table_found
    /\ page_num' = page_num + 1
    /\ summary_values' = MergeSummary(summary_values, PageSummary[pdf[page_num + 1]])
    /\ UNCHANGED <<call_vars, pdf, pc, all_rows, table_found, headers_processed, weeks_break,
                   weeks_classified, payments_vars, probe>>

\* A page without weeks headers after a table was found, in a run that keeps
\* going: the summary is mined and the loop continues.
WeeksStopPageContinues ==
    /\ pc = "weeks" /\ page_num < Len(pdf)
    /\ ~PageHasWeeksHeaders[pdf[page_num + 1]]
    /\ table_found
    /\ page_num' = page_num + 1
    /\ summary_values' = MergeSummary(summary_values, PageSummary[pdf[page_num + 1]])
    /\ UNCHANGED <<call_vars, pdf, pc, all_rows, table_found, headers_processed, weeks_break,
                   weeks_classified, payments_vars, probe>>

\* The same page in a run that is left only when the page text holds an
\* end-of-table indicator.
WeeksStopPageOnIndicator ==
    /\ pc = "weeks" /\ page_num < Len(pdf)
    /\ ~PageHasWeeksHeaders[pdf[page_num + 1]]
    /\ table_found
    /\ page_num' = page_num + 1
    /\ summary_values' = MergeSummary(summary_values, PageSummary[pdf[page_num + 1]])
    /\ IF check_for_table_end_by_text(<<>>, PageKinds[pdf[page_num + 1]].text)
       THEN weeks_break' = page_num + 1 /\ pc' = "payments"
       ELSE UNCHANGED <<weeks_break, pc>>
    /\ UNCHANGED <<call_vars, pdf, all_rows, table_found, headers_processed, weeks_classified,
                   payments_vars, probe>>

\* A page without weeks headers after a table was found: its summary is
\* mined and the loop is left; the records are returned.
WeeksStopPage ==
    /\ pc = "weeks" /\ page_num < Len(pdf)
    /\ ~PageHasWeeksHeaders[pdf[page_num + 1]]
    /\ table_found
    /\ page_num' = page_num + 1
    /\ summary_values' = MergeSummary(summary_values, PageSummary[pdf[page_num + 1]])
    /\ weeks_break' = page_num + 1
    /\ pc' = "payments"
    /\ UNCHANGED <<call_vars, pdf, all_rows, table_found, headers_processed, weeks_classified,
                   payments_vars, probe>>

\* A page with weeks headers: check_for_table_end, then the first matching
\* table of the page is consumed and the page's summary mined.
WeeksTablePage ==
    /\ pc = "weeks" /\ page_num < Len(pdf)
    /\ PageHasWeeksHeaders[pdf[page_num + 1]]
    /\ LET k == pdf[page_num + 1]
       IN /\ page_num' = page_num + 1
          /\ summary_values' = MergeSummary(summary_values, PageSummary[k])
          /\ IF PageTableEnd[k]
             THEN /\ weeks_break' = page_num + 1
                  /\ pc' = "payments"
                  /\ UNCHANGED <<all_rows, table_found, headers_processed, weeks_classified>>
             ELSE /\ table_found' = TRUE
                  /\ headers_processed' = TRUE
                  /\ all_rows' = all_rows \o PageWeeksRecords[k][StartRow(headers_processed)]
                  /\ weeks_classified' = weeks_classified \cup
                        {<<page_num + 1, c[1], c[2]>> :
                            c \in PageWeeksClassified[k][StartRow(headers_processed)]}
                  /\ UNCHANGED <<weeks_break, pc>>
    /\ UNCHANGED <<call_vars, pdf, payments_vars, probe>>

\* The pages are exhausted: the records are returned.
WeeksLoopEnd ==
    /\ pc = "weeks" /\ page_num = Len(pdf)
    /\ pc' = "payments"
    /\ UNCHANGED <<call_vars, pdf, weeks_vars, payments_vars, probe>>

\* A page of the payments run with a payments table: the first one is consumed.
PaymentsTablePage ==
    /\ pc = "payments" /\ p_page_num < Len(pdf)
    /\ PagePaymentsTable[pdf[p_page_num + 1]] /= 0
    /\ LET k == pdf[p_page_num + 1]
       IN /\ p_page_num' = p_page_num + 1
          /\ p_table_found' = TRUE
          /\ p_headers_processed' = TRUE
          /\ p_all_rows' = p_all_rows \o PagePaymentsRecords[k][StartRow(p_headers_processed)]
          /\ p_classified' = p_classified \cup
                {<<p_page_num + 1, c[1], c[2]>> :
                    c \in PagePaymentsClassified[k][StartRow(p_headers_processed)]}
    /\ UNCHANGED <<call_vars, pdf, pc, weeks_vars, probe>>

\* A page without a payments table in a run that is left once a payments
\* table was found.
PaymentsOtherPageStops ==
    /\ pc = "payments" /\ p_page_num < Len(pdf)
    /\ PagePaymentsTable[pdf[p_page_num + 1]] = 0
    /\ p_page_num' = p_page_num + 1
    /\ pc' = IF p_table_found THEN "done" ELSE pc
    /\ UNCHANGED <<call_vars, pdf, weeks_vars, p_all_rows, p_table_found, p_headers_processed,
                   p_classified, probe>>

\* A page of the payments run without a payments table: nothing is done.
PaymentsOtherPage ==
    /\ pc = "payments" /\ p_page_num < Len(pdf)
    /\ PagePaymentsTable[pdf[p_page_num + 1]] = 0
    /\ p_page_num' = p_page_num + 1
    /\ UNCHANGED <<call_vars, pdf, pc, weeks_vars, p_all_rows, p_table_found, p_headers_processed,
                   p_classified, probe>>

\* The pages are exhausted: the payments records are returned,
\* extract_all_from_pdf returns the three outputs and parse_pension_pdf
\* answers with them.
PaymentsLoopEnd ==
    /\ pc = "payments" /\ p_page_num = Len(pdf)
    /\ pc' = "done"
    /\ response' = [status |-> "ok", weeks_data |-> all_rows,
                    summary_values |-> summary_values, payments_data |-> p_all_rows]
    /\ UNCHANGED <<pdf, weeks_vars, payments_vars, probe, faults, calls>>

Next ==
    \/ WeeksSkipPage
    \/ WeeksStopPage
    \/ WeeksTablePage
    \/ WeeksLoopEnd
    \/ PaymentsTablePage
    \/ PaymentsOtherPage
    \/ PaymentsLoopEnd

Spec == Init /\ [][Next]_vars

(***************************************************************************)
(* The same call with a layout engine that may raise: pdfplumber.open,     *)
(* page.extract_tables and page.extract_text.                              *)
(***************************************************************************)
MaxFaultPages == 2

InitFaults ==
    /\ pdf \in UNION {[1..n -> 1..PageCount] : n \in 1..MaxFaultPages}
    /\ pc = "weeks"
    /\ InitRuns
    /\ calls = <<>>
    /\ probe = NoProbe

\* pdfplumber.open or page.extract_tables raises in the weeks run: the
\* exception is logged and raised again, extract_all_from_pdf does not catch
\* it and parse_pension_pdf answers with an HTTP error.
WeeksEngineFails ==
    /\ pc = "weeks"
    /\ \E call \in {"open", "extract_tables"} :
          /\ call = "open" => page_num = 0
          /\ call = "extract_tables" => page_num < Len(pdf)
          /\ faults' = faults \cup {<<"weeks", call, IF call = "open" THEN 0 ELSE page_num + 1>>}
    /\ pc' = "failed"
    /\ response' = [status |-> "error"]
    /\ UNCHANGED <<pdf, weeks_vars, payments_vars, probe, calls>>

\* page.extract_text raises on a page of the weeks run: extract_summary_values
\* catches the exception and returns no value, check_for_table_end does not
\* get as far as the text of a page with headers, and the page is handled as
\* a page whose text yields nothing.
WeeksTextFails ==
    /\ pc = "weeks" /\ page_num < Len(pdf)
    /\ page_num' = page_num + 1
    /\ faults' = faults \cup {<<"weeks", "extract_text", page_num + 1>>}
    /\ LET k == pdf[page_num + 1]
       IN IF ~PageHasWeeksHeaders[k]
          THEN /\ IF table_found
                  THEN weeks_break' = page_num + 1 /\ pc' = "payments"
                  ELSE UNCHANGED <<weeks_break, pc>>
               /\ UNCHANGED <<all_rows, table_found, headers_processed, weeks_classified>>
          ELSE /\ table_found' = TRUE
               /\ headers_processed' = TRUE
               /\ all_rows' = all_rows \o PageWeeksRecords[k][StartRow(headers_processed)]
               /\ weeks_classified' = weeks_classified \cup
                     {<<page_num + 1, c[1], c[2]>> :
                         c \in PageWeeksClassified[k][StartRow(headers_processed)]}
               /\ UNCHANGED <<weeks_break, pc>>
    /\ UNCHANGED <<pdf, summary_values, payments_vars, probe, response, calls>>

\* pdfplumber.open or page.extract_tables raises in the payments run: the
\* exception reaches parse_pension_pdf, which answers with an HTTP error.
PaymentsEngineFails ==
    /\ pc = "payments"
    /\ \E call \in {"open", "extract_tables"} :
          /\ call = "open" => p_page_num = 0
          /\ call = "extract_tables" => p_page_num < Len(pdf)
          /\ faults' = faults \cup {<<"payments", call, IF call = "open" THEN 0 ELSE p_page_num + 1>>}
    /\ pc' = "failed"
    /\ response' = [status |-> "error"]
    /\ UNCHANGED <<pdf, weeks_vars, payments_vars, probe, calls>>

NextFaults ==
    \/ Next
    \/ WeeksEngineFails
    \/ WeeksTextFails
    \/ PaymentsEngineFails

SpecFaults == InitFaults /\ [][NextFaults]_vars

(***************************************************************************)
(* Two calls of extract_all_from_pdf at the same time, each on its own     *)
(* document, their passes over a page interleaved in any order.  The       *)
(* variables of a run are locals of its function call.                     *)
(***************************************************************************)
MaxPairPages == 2
PairKinds == {3, 5, 9}
PairDocuments == UNION {[1..n -> PairKinds] : n \in 1..MaxPairPages}

\* the locals of a call at its start
NewCall(doc) ==
    [doc |-> doc, pc |-> "weeks", page_num |-> 0, all_rows |-> <<>>,
     summary_values |-> NoSummary, table_found |-> FALSE, headers_processed |-> FALSE,
     p_page_num |-> 0, p_all_rows |-> <<>>, p_table_found |-> FALSE,
     p_headers_processed |-> FALSE]

\* a header flag kept in one place for all the calls of the process
SharedFlag(all_calls, i, flag) == \E j \in 1..Len(all_calls) : all_calls[j][flag]

\* headers_processed is a local of the call that reads it
LocalFlag(all_calls, i, flag) == all_calls[i][flag]

\* One pass of the page loop of a call (or the return that follows the last
\* page), given the header flags the pass reads.
CallStep(c, headers_flag, p_headers_flag) ==
    LET WeeksPage(k, mined) ==
            IF ~PageHasWeeksHeaders[k]
            THEN IF c.table_found THEN [mined EXCEPT !.pc = "payments"] ELSE mined
            ELSE IF PageTableEnd[k] THEN [mined EXCEPT !.pc = "payments"]
            ELSE [mined EXCEPT !.table_found = TRUE, !.headers_processed = TRUE,
                               !.all_rows = @ \o PageWeeksRecords[k][StartRow(headers_flag)]]
        PaymentsPage(k, taken) ==
            IF PagePaymentsTable[k] = 0 THEN taken
            ELSE [taken EXCEPT !.p_table_found = TRUE, !.p_headers_processed = TRUE,
                               !.p_all_rows = @ \o PagePaymentsRecords[k][StartRow(p_headers_flag)]]
    IN IF c.pc = "weeks"
       THEN IF c.page_num = Len(c.doc) THEN [c EXCEPT !.pc = "payments"]
            ELSE WeeksPage(c.doc[c.page_num + 1],
                           [c EXCEPT !.page_num = @ + 1,
                                     !.summary_values =
                                         MergeSummary(@, PageSummary[c.doc[c.page_num + 1]])])
       ELSE IF c.p_page_num = Len(c.doc) THEN [c EXCEPT !.pc = "done"]
            ELSE PaymentsPage(c.doc[c.p_page_num + 1], [c EXCEPT !.p_page_num = @ + 1])

InitPair ==
    /\ pdf = <<>>
    /\ pc = "pair"
    /\ InitRuns
    /\ probe = NoProbe
    /\ calls \in {<<NewCall(d1), NewCall(d2)>> : d1 \in PairDocuments, d2 \in PairDocuments}

\* one of the calls makes its next pass
PairStep ==
    /\ pc = "pair"
    /\ \E i \in 1..Len(calls) :
          /\ calls[i].pc /= "done"
          /\ calls' = [calls EXCEPT ![i] =
                          CallStep(calls[i], LocalFlag(calls, i, "headers_processed"),
                                   LocalFlag(calls, i, "p_headers_processed"))]
    /\ UNCHANGED <<pdf, pc, weeks_vars, payments_vars, probe, response, faults>>

SpecPair == InitPair /\ [][PairStep]_vars

(***************************************************************************)
(* extract_summary_values on its own: the loop over the lines of one page  *)
(* text, one line per step.                                                *)
(***************************************************************************)
MaxFollowing == 5

\* the first line of a text, and the lines that may follow it
FirstLines ==
    <<"[26] TOTAL SEMANAS", "[26] TOTAL SEMANAS 87,50", "[26] Total semanas 26,00",
      "TOTAL SEMANAS 87,50">>
FollowingLines == <<"", "87,50", "1193,00", "1250,00">>

RECURSIVE JoinLines(_)
JoinLines(ls) == IF Len(ls) = 1 THEN ls[1] ELSE ls[1] \o "\n" \o JoinLines(Tail(ls))

SummaryTexts ==
    {JoinLines(<<FirstLines[f]>> \o [j \in 1..Len(g) |-> FollowingLines[g[j]]]) :
        f \in 1..Len(FirstLines),
        g \in UNION {[1..n -> 1..Len(FollowingLines)] : n \in 0..MaxFollowing}}

\* text = page.extract_text(); lines = text.split('\n'); summary_values all None
InitSummary ==
    /\ pdf = <<>>
    /\ pc = "summary"
    /\ InitRuns
    /\ calls = <<>>
    /\ probe \in {[text |-> t, lines |-> SplitOn(t, "\n"), i |-> 0, sv |-> NoSummary] :
                     t \in SummaryTexts}

\* One pass of the loop body, over the line of Python index probe.i.
SummaryLine ==
    /\ pc = "summary" /\ probe.i < Len(probe.lines)
    /\ probe' = [probe EXCEPT !.i = @ + 1,
                               !.sv = SummaryLineStep(probe.lines, probe.i + 1, probe.sv)]
    /\ UNCHANGED <<call_vars, pdf, pc, weeks_vars, payments_vars>>

\* The lines are exhausted: summary_values is returned.
SummaryReturn ==
    /\ pc = "summary" /\ probe.i = Len(probe.lines)
    /\ pc' = "done"
    /\ UNCHANGED <<call_vars, pdf, weeks_vars, payments_vars, probe>>

NextSummary == SummaryLine \/ SummaryReturn

SpecSummary == InitSummary /\ [][NextSummary]_vars

(***************************************************************************)
(* The acceptance tests of the two runs on their own: one raw table, tried *)
(* by the weeks schema and by the payments schema.                         *)
(***************************************************************************)
MaxRows == 2

\* a first row of `width` cells: the first m labels, then cells no schema knows
HeaderOf(labels, m, width) ==
    [j \in 1..width |-> IF j <= m /\ j <= Len(labels) THEN labels[j] ELSE "Columna"]

\* a label in capitals, and without its accents
Upper(s) == MapChars(s, [c \in LowerSet |-> Chr(Uppers, CHOOSE i \in 1..Len(Lowers) : Chr(Lowers, i) = c)])
Unaccented(s) ==
    MapChars(s, [c \in {"á", "é", "í", "ó", "ú", "Á", "É", "Í", "Ó", "Ú"} |->
                    CASE c = "á" -> "a" [] c = "é" -> "e" [] c = "í" -> "i" [] c = "ó" -> "o"
                      [] c = "ú" -> "u" [] c = "Á" -> "A" [] c = "É" -> "E" [] c = "Í" -> "I"
                      [] c = "Ó" -> "O" [] c = "Ú" -> "U"])

\* the weeks labels as a document without accents, or in capitals, prints them
PlainWeeksLabels == [i \in 1..Len(expected_headers) |-> Upper(Unaccented(expected_headers[i]))]
CapitalWeeksLabels == [i \in 1..Len(expected_headers) |-> Upper(expected_headers[i])]

ProbeHeaders ==
    {HeaderOf(expected_headers, m, w) :
        m \in 0..WeeksColumns, w \in (WeeksColumns - 1)..(WeeksColumns + 1)}
    \cup {HeaderOf(payments_expected_headers, m, w) :
            m \in 0..PaymentsColumns, w \in (PaymentsColumns - 1)..(PaymentsColumns + 1)}
    \cup {HeaderOf(header_patterns, m, PaymentsColumns) : m \in 0..PaymentsColumns}
    \cup {HeaderOf(PlainWeeksLabels, m, WeeksColumns) : m \in 0..WeeksColumns}
    \cup {HeaderOf(CapitalWeeksLabels, m, WeeksColumns) : m \in 0..WeeksColumns}
    \cup {WeeksHeaderRow, WeeksHeaderRowNit, PaymentsHeaderRowNit,
          <<"Identificación aportante", "Nombre o razón Social", "Desde", "Hasta",
            "Último salario", "Semanas", "Fecha de pago", "IBC", "Días del período">>,
          [j \in 1..WeeksColumns |-> IF j % 2 = 0 THEN None ELSE ""],
          <<"", "Banco", "Ciudad", "Codigo", "Referencia", "Valor", "Concepto", "Pagina", "Oficina">>,
          <<"x", "Banco", "Ciudad", "Codigo", "Referencia", "Valor", "Concepto", "Pagina", "Oficina">>,
          <<"Detalle de pagos efectuados", "Valor">>,
          <<" Fecha ", "IBC", "Días", "Período">>,
          <<"Concepto", "Valor">>}

ProbeTables ==
    {[r \in 1..n |-> IF r = 1 THEN h ELSE <<"890326878", "ACME S.A.", "51,43">>] :
        h \in ProbeHeaders, n \in 1..MaxRows}

InitMatch ==
    /\ pdf = <<>>
    /\ pc = "match"
    /\ InitRuns
    /\ calls = <<>>
    /\ probe \in {[table |-> t, checked |-> {}, accepted |-> {}] : t \in ProbeTables}

\* The weeks runs try the table.
MatchWeeks ==
    /\ pc = "match" /\ "weeks" \notin probe.checked
    /\ probe' = [probe EXCEPT !.checked = @ \cup {"weeks"},
                               !.accepted = IF WeeksTableMatches(probe.table)
                                            THEN @ \cup {"weeks"} ELSE @]
    /\ UNCHANGED <<call_vars, pdf, pc, weeks_vars, payments_vars>>

\* The payments run tries the table.
MatchPayments ==
    /\ pc = "match" /\ "payments" \notin probe.checked
    /\ probe' = [probe EXCEPT !.checked = @ \cup {"payments"},
                               !.accepted = IF PaymentsTableMatches(probe.table)
                                            THEN @ \cup {"payments"} ELSE @]
    /\ UNCHANGED <<call_vars, pdf, pc, weeks_vars, payments_vars>>

NextMatch == MatchWeeks \/ MatchPayments

SpecMatch == InitMatch /\ [][NextMatch]_vars

(***************************************************************************)
(* ColpensionesPost1995PaymentsExtractor.get_missing_periods_json, on the  *)
(* 'cont_period' column of the frame it is given.  A Timestamp of the      *)
(* first day of a month is the number of that month, counted from year 0.  *)
(***************************************************************************)
\* pd.to_datetime(column, format='%Y-%m') when some value holds a '-', and
\* pd.to_datetime(column, format='%Y%m') otherwise
to_datetime(period, dashed) ==
    IF dashed
    THEN LET Month(parts) == ToInt(parts[1]) * 12 + ToInt(parts[2]) - 1
         IN Month(SplitOn(period, "-"))
    ELSE ToInt(SubSeq(period, 1, 4)) * 12 + ToInt(SubSeq(period, 5, 6)) - 1

\* Timestamp.strftime('%Y-%m')
MonthString(t) == ZeroPad(IntToStr(t \div 12), 4) \o "-" \o ZeroPad(IntToStr((t % 12) + 1), 2)

\* a gap listing that reports every month of the range
RECURSIVE EveryMonth(_, _, _)
EveryMonth(t, end_period, existing_periods) ==
    IF t > end_period THEN <<>>
    ELSE <<t>> \o EveryMonth(t + 1, end_period, existing_periods)

\* [p for p in all_periods if p not in existing_periods], all_periods being
\* pd.date_range(start, end, freq='MS') from t on
RECURSIVE MissingPeriods(_, _, _)
MissingPeriods(t, end_period, existing_periods) ==
    IF t > end_period THEN <<>>
    ELSE (IF t \in existing_periods THEN <<>> ELSE <<t>>)
             \o MissingPeriods(t + 1, end_period, existing_periods)

get_missing_periods_json(cont_period) ==
    LET Result(start_period, end_period, missing_periods) ==
            [missing_periods |-> [k \in 1..Len(missing_periods) |-> MonthString(missing_periods[k])],
             start_period |-> MonthString(start_period),
             end_period |-> MonthString(end_period),
             n_missing |-> Len(missing_periods)]
        \* sort_values, then iloc[0] and iloc[-1]
        Sorted(existing_periods) ==
            LET Range(first, last) ==
                    Result(first, last, MissingPeriods(first, last, existing_periods))
            IN Range(CHOOSE t \in existing_periods : \A u \in existing_periods : t <= u,
                     CHOOSE t \in existing_periods : \A u \in existing_periods : u <= t)
        Converted(dashed) ==
            Sorted({to_datetime(cont_period[k], dashed) : k \in 1..Len(cont_period)})
    IN Converted(\E k \in 1..Len(cont_period) : Contains("-", cont_period[k]))

(***************************************************************************)
(* Single calls of the row functions, of the normalizers and of            *)
(* get_missing_periods_json, each on one input.                            *)
(***************************************************************************)
\* the rows: a first cell and the cells that follow it
RowFirstCells ==
    {"TOTAL GENERAL", "Total", " subtotal ", "Gran Total:", "Resumen", "SUMA",
     "16610898", "NIT", "", "   ", None, "7", "A", " 7 "}
RowBodies ==
    {<<"ACME S.A.", "01/01/1990", "31/12/1990", "$ 41.025", "51,43", "0,00", "0,00", "51,43">>,
     <<"PEREZ JUAN", "SI", "199712", "15/01/1998", "70012345", "$ 471.800", "$ 63.700", "$ 0", "", "30", "30", "Pago aplicado">>,
     <<"PEREZ JUAN", "SI", "199801", "12/02/1998", "70012399", "$ 471.800", "$ 63.700", "$ 0", "", "45", "30", None>>,
     <<"PEREZ JUAN", "SI", "199802", "12/03/1998", "70012400", "$ 471.800", "$ 63.700", "$ 0", "", "45", "0", None>>,
     <<"PEREZ JUAN", "SI", "199803", "12/04/1998", "70012401", "--", "$ 63.700", "$ 0", "", "-5", "32", None>>,
     <<"PEREZ JUAN", None, None, None, None, None, None, None, None, None, None, None>>,
     <<None, "SI", "199804", None, None, "$ 471.800", None, None, None, "30", "30", None>>,
     <<"   ", "SI", "199805", None, None, "$ 471.800", None, None, None, "30", "30", None>>,
     <<"PEREZ JUAN", "199806">>,
     <<"PEREZ JUAN">>,
     <<"PEREZ JUAN", "SI", "199712", "15/01/1998", "70012345", "$ 471.800", "$ 63.700", "$ 0", "", "30", "30", "Pago aplicado", "x">>,
     <<"ACME S.A.", "01/01/1990", "31/12/1990", "$ 41.025", "51,43", "0,00", "0,00", "51,43", "x">>,
     <<"ACME S.A.", "01/01/1990", "31/12/1990", "$ 41.025", "51,43", "0,00", "0,00">>,
     <<"PEREZ JUAN", "SI", "199807", None, None, "$ 471.800", None, None, None, "", "30", None>>,
     <<"PEREZ JUAN", "SI", "199808", None, None, "$ 471.800", None, None, None, "30", "0", None>>}
ProbeRows == {<<f>> \o b : f \in RowFirstCells, b \in RowBodies}

\* the strings handed to clean_salary: grouped thousands, with and without
\* a decimal part and a currency sign
SalaryPrefixes == {"", "$", "$ "}
SalaryGroups == {"1.235.000", "2.000.000", "41.025", "980.000", "980", "0"}
SalaryDecimals == {"", ",50", ",00", ",5"}
SalaryStrings == {p \o g \o d : p \in SalaryPrefixes, g \in SalaryGroups, d \in SalaryDecimals}

\* the strings handed to normalize_period: every YYYYMM of two years, and
\* strings that are not six digits
PeriodYears == {"1997", "2020"}
TwoDigits == {ZeroPad(IntToStr(k), 2) : k \in 0..99}
PeriodStrings ==
    {y \o m : y \in PeriodYears, m \in TwoDigits}
    \cup {"1997123", "19971201", "199712 abc", "199712x", "199713x", " 199712 ", "19971",
          "1997-12", "12/1997", "abcdef", "x199712", "", "--", None}

\* the strings handed to normalize_date: days and months in the three
\* formats, with years on both sides of 1000
DateYears == {"0005", "0999", "1000", "1997", "2000"}
DateDays == {<<"05", "12">>, <<"29", "02">>, <<"1", "7">>, <<"31", "04">>}
DateStrings ==
    {dm[1] \o "/" \o dm[2] \o "/" \o y : dm \in DateDays, y \in DateYears}
    \cup {dm[1] \o "-" \o dm[2] \o "-" \o y : dm \in DateDays, y \in DateYears}
    \cup {y \o "-" \o dm[2] \o "-" \o dm[1] : dm \in DateDays, y \in DateYears}
    \cup {"999-01-01", "5-12-03", " 05/12/1997 ", "05/12/97", "N/A", "", None}

\* the columns handed to get_missing_periods_json: up to MaxPeriods periods
\* of six consecutive months, in any order, repeated or not, all written
\* YYYY-MM or all written YYYYMM
MaxPeriods == 3
WindowMonths == <<"2019-11", "2019-12", "2020-01", "2020-02", "2020-03", "2020-04">>
DashedColumns == UNION {[1..n -> {WindowMonths[i] : i \in 1..Len(WindowMonths)}] : n \in 1..MaxPeriods}
PeriodColumns ==
    DashedColumns \cup {[k \in 1..Len(c) |-> RemoveChar(c[k], "-")] : c \in DashedColumns}
NoGaps == [missing_periods |-> <<>>, start_period |-> None, end_period |-> None, n_missing |-> 0]

RowCalls ==
    {[fn |-> "row", row |-> r, weeks |-> "pending", weeks_rows |-> <<>>,
      payments |-> "pending", payments_rows |-> <<>>] : r \in ProbeRows}
SalaryCalls ==
    {[fn |-> "clean_salary", arg |-> a, calls |-> 0, result |-> NoneNum] : a \in SalaryStrings}
PeriodCalls ==
    {[fn |-> "normalize_period", arg |-> a, calls |-> 0, result |-> None] : a \in PeriodStrings}
DateCalls ==
    {[fn |-> "normalize_date", arg |-> a, padded |-> b, calls |-> 0, result |-> None,
      again |-> None] : a \in DateStrings, b \in BOOLEAN}
GapCalls ==
    {[fn |-> "get_missing_periods_json", arg |-> c, calls |-> 0, result |-> NoGaps] :
        c \in PeriodColumns}

InitCalls ==
    /\ pdf = <<>>
    /\ pc = "call"
    /\ InitRuns
    /\ calls = <<>>
    /\ \/ probe \in RowCalls
       \/ probe \in SalaryCalls
       \/ probe \in PeriodCalls
       \/ probe \in DateCalls
       \/ probe \in GapCalls

\* The body of the row loop of the weeks runs on one row: is_data_row, then
\* clean_row_data, then all_rows.append.
CallWeeksRow ==
    /\ pc = "call" /\ probe.fn = "row" /\ probe.weeks = "pending"
    /\ probe' = [probe EXCEPT !.weeks = WeeksRowVerdict(probe.row),
                               !.weeks_rows = WeeksRowRecords(<<probe.row>>, 1)]
    /\ UNCHANGED <<call_vars, pdf, pc, weeks_vars, payments_vars>>

\* The body of the row loop of the payments run on one row.
CallPaymentsRow ==
    /\ pc = "call" /\ probe.fn = "row" /\ probe.payments = "pending"
    /\ probe' = [probe EXCEPT !.payments = PaymentsRowVerdict(probe.row),
                               !.payments_rows = PaymentsRowRecords(<<probe.row>>, 1)]
    /\ UNCHANGED <<call_vars, pdf, pc, weeks_vars, payments_vars>>

CallCleanSalary ==
    /\ pc = "call" /\ probe.fn = "clean_salary" /\ probe.calls = 0
    /\ probe' = [probe EXCEPT !.calls = 1, !.result = clean_salary(probe.arg)]
    /\ UNCHANGED <<call_vars, pdf, pc, weeks_vars, payments_vars>>

CallNormalizePeriod ==
    /\ pc = "call" /\ probe.fn = "normalize_period" /\ probe.calls = 0
    /\ probe' = [probe EXCEPT !.calls = 1, !.result = normalize_period(probe.arg)]
    /\ UNCHANGED <<call_vars, pdf, pc, weeks_vars, payments_vars>>

CallNormalizeDate ==
    /\ pc = "call" /\ probe.fn = "normalize_date" /\ probe.calls = 0
    /\ probe' = [probe EXCEPT !.calls = 1,
                               !.result = normalize_date_on(probe.arg, probe.padded)]
    /\ UNCHANGED <<call_vars, pdf, pc, weeks_vars, payments_vars>>

\* normalize_date called on the date the first call returned
CallNormalizeDateAgain ==
    /\ pc = "call" /\ probe.fn = "normalize_date" /\ probe.calls = 1
    /\ probe.result /= None
    /\ probe' = [probe EXCEPT !.calls = 2,
                               !.again = normalize_date_on(probe.result, probe.padded)]
    /\ UNCHANGED <<call_vars, pdf, pc, weeks_vars, payments_vars>>

CallMissingPeriods ==
    /\ pc = "call" /\ probe.fn = "get_missing_periods_json" /\ probe.calls = 0
    /\ probe' = [probe EXCEPT !.calls = 1, !.result = get_missing_periods_json(probe.arg)]
    /\ UNCHANGED <<call_vars, pdf, pc, weeks_vars, payments_vars>>

NextCalls ==
    \/ CallWeeksRow
    \/ CallPaymentsRow
    \/ CallCleanSalary
    \/ CallNormalizePeriod
    \/ CallNormalizeDate
    \/ CallNormalizeDateAgain
    \/ CallMissingPeriods

SpecCalls == InitCalls /\ [][NextCalls]_vars

(***************************************************************************)
(* ColpensionesPDFExtractor.extract_table_from_pdf: the weeks run that     *)
(* returns the records only.  A page without weeks headers is skipped      *)
(* whether or not a table was found before it; the loop is left only when  *)
(* check_for_table_end holds on a page with headers.                       *)
(***************************************************************************)
\* the records appended from page n on, given headers_processed
RECURSIVE TableRunFrom(_, _, _)
TableRunFrom(doc, n, processed) ==
    IF n > Len(doc) THEN <<>>
    ELSE IF ~PageHasWeeksHeaders[doc[n]] THEN TableRunFrom(doc, n + 1, processed)
    ELSE IF PageTableEnd[doc[n]] THEN <<>>
    ELSE PageWeeksRecords[doc[n]][StartRow(processed)] \o TableRunFrom(doc, n + 1, TRUE)

extract_table_from_pdf(doc) == TableRunFrom(doc, 1, FALSE)

(***************************************************************************)
(* Properties of the two runs over a document (Spec).                      *)
(***************************************************************************)
\* the page text holds one of the end-of-table indicators
HasEndIndicator(text) ==
    Truthy(text) /\ \E k \in 1..Len(end_indicators) : Contains(end_indicators[k], Lower(text))

\* the same, and the first table each schema accepts (<<>> when none),
\* tabulated per page kind
KindEndIndicator == [k \in 1..PageCount |-> HasEndIndicator(PageKinds[k].text)]
KindWeeksTable ==
    [k \in 1..PageCount |->
        LET Of(t) == IF t = 0 THEN <<>> ELSE PageKinds[k].tables[t]
        IN Of(FirstWeeksTable(PageKinds[k].tables))]
KindPaymentsTable ==
    [k \in 1..PageCount |->
        LET Of(t) == IF t = 0 THEN <<>> ELSE PageKinds[k].tables[t]
        IN Of(FirstPaymentsTable(PageKinds[k].tables))]

\* page p of the document holds a table the weeks (payments) schema accepts
AcceptsWeeks(p) == KindWeeksTable[pdf[p]] /= <<>>
AcceptsPayments(p) == KindPaymentsTable[pdf[p]] /= <<>>

\* the table of page p a run consumes, and the indicator test on its text
WeeksTableOf(p) == KindWeeksTable[pdf[p]]
PaymentsTableOf(p) == KindPaymentsTable[pdf[p]]
EndIndicatorOn(p) == KindEndIndicator[pdf[p]]

\* the states of a run
Seeking == pc = "weeks" /\ ~table_found
Accumulating == pc = "weeks" /\ table_found
Done == pc /= "weeks"

\* every row under the header has 9 cells, the first one an identifier
DataRowsOnly(table) ==
    \A r \in 2..Len(table) :
        /\ Len(table[r]) = WeeksColumns
        /\ Truthy(table[r][1]) /\ IsDigitStr(table[r][1]) /\ Len(table[r][1]) >= 6

\* page 1 holds an accepted weeks table of a header and data rows only, page 2
\* no accepted table and a text with an end-of-table indicator
C1_Premise ==
    /\ Len(pdf) >= 2
    /\ AcceptsWeeks(1) /\ DataRowsOnly(WeeksTableOf(1))
    /\ ~AcceptsWeeks(2) /\ EndIndicatorOn(2)

\* C1: when page 1 holds an accepted weeks table of a header row and k data
\* rows and page 2 holds no accepted table but an end-of-table indicator in
\* its text, the weeks run is Seeking before page 1, Accumulating after page
\* 1 and Done after page 2, it takes no page after page 2, and it returns
\* exactly k records.
C1_TwoPageRun ==
    C1_Premise =>
        /\ page_num <= 2
        /\ page_num = 0 => Seeking /\ all_rows = <<>>
        /\ page_num = 1 => Accumulating /\ Len(all_rows) = Len(WeeksTableOf(1)) - 1
        /\ page_num = 2 => Done /\ weeks_break = 2
                                /\ Len(all_rows) = Len(WeeksTableOf(1)) - 1

C1_Witness ==
    /\ C1_Premise /\ pc = "done"
    /\ Len(pdf) = 3 /\ page_num = 2 /\ Len(all_rows) = 3

\* the first page without an accepted weeks table that follows a page with
\* one, or 0
FirstGapPage ==
    FirstOrNone({p \in 1..Len(pdf) : ~AcceptsWeeks(p) /\ \E q \in 1..(p - 1) : AcceptsWeeks(q)})

C3_TablePageContinues ==
    [][(pc = "weeks" /\ page_num < Len(pdf) /\ AcceptsWeeks(page_num + 1)) =>
          /\ pc' = "weeks" /\ weeks_break' = 0
          /\ page_num' = page_num + 1
          /\ table_found'
          /\ all_rows' = all_rows \o
                WeeksRowRecords(WeeksTableOf(page_num + 1), IF headers_processed THEN 1 ELSE 2)]_vars

C3_Witness ==
    /\ pc = "weeks" /\ page_num >= 1
    /\ AcceptsWeeks(page_num) /\ EndIndicatorOn(page_num)
    /\ all_rows /= <<>>

\* the first page taken so far with an accepted table, or 0
FirstWeeksPage == FirstOrNone({p \in 1..page_num : AcceptsWeeks(p)})
FirstPaymentsPage == FirstOrNone({p \in 1..p_page_num : AcceptsPayments(p)})

\* the rows of page p handed to the classifier
RowsClassified(classified, p) == {c[2] : c \in {d \in classified : d[1] = p}}
NonEmptyRows(table, start) == {r \in start..Len(table) : RowNonEmpty(table[r])}

\* C4: in both runs the header flag is false at the start, true exactly from
\* the first accepted table on, and never reset; the first row of the first
\* accepted table is not classified, and of every table accepted afterwards
\* the first row is classified like every other row.
C4_HeaderConsumedOnce ==
    /\ headers_processed <=> FirstWeeksPage /= 0
    /\ p_headers_processed <=> FirstPaymentsPage /= 0
    /\ \A p \in 1..page_num : AcceptsWeeks(p) =>
          RowsClassified(weeks_classified, p) =
              NonEmptyRows(WeeksTableOf(p), IF p = FirstWeeksPage THEN 2 ELSE 1)
    /\ \A p \in 1..p_page_num : AcceptsPayments(p) =>
          RowsClassified(p_classified, p) =
              NonEmptyRows(PaymentsTableOf(p), IF p = FirstPaymentsPage THEN 2 ELSE 1)

C4_Witness ==
    /\ pc = "done"
    /\ 1 \notin RowsClassified(weeks_classified, 1) /\ 1 \in RowsClassified(weeks_classified, 2)
    /\ 1 \notin RowsClassified(p_classified, 1) /\ 1 \in RowsClassified(p_classified, 2)

\* C5 as stated: in both runs, when tables with the identical first row are
\* accepted on page N and on page N+1, the first row of the table of page N+1
\* is classified as no data row and yields no record.
C5_HeaderRepeatNoRecord ==
    /\ \A p \in 2..page_num :
          (AcceptsWeeks(p - 1) /\ AcceptsWeeks(p)
             /\ WeeksTableOf(p)[1] = WeeksTableOf(p - 1)[1])
          => <<p, 1, "not_data">> \in weeks_classified
    /\ \A p \in 2..p_page_num :
          (AcceptsPayments(p - 1) /\ AcceptsPayments(p)
             /\ PaymentsTableOf(p)[1] = PaymentsTableOf(p - 1)[1])
          => <<p, 1, "not_data">> \in p_classified

\* the value of a field mined from the last of the pages 1..n whose text
\* yields one
RECURSIVE LastMined(_, _)
LastMined(field, n) ==
    IF n = 0 THEN NoneNum
    ELSE IF PageSummary[pdf[n]][field] /= NoneNum THEN PageSummary[pdf[n]][field]
    ELSE LastMined(field, n - 1)

\* C6 as stated: the summary the weeks run returns holds, for each field, the
\* value mined from the last page of the whole document whose text yields
\* one.
C6_LastOfDocument ==
    Done =>
        /\ summary_values.weeks_total_report = LastMined("weeks_total_report", Len(pdf))
        /\ summary_values.weeks_high_risk = LastMined("weeks_high_risk", Len(pdf))

\* C6 amended: at every point of the weeks run the summary holds, for each
\* field, the value mined from the last of the pages taken so far whose text
\* yields one (a later value overwrites an earlier one); the pages after the
\* one that ended the run are not mined.
C6_LastOfPagesTaken ==
    /\ summary_values.weeks_total_report = LastMined("weeks_total_report", page_num)
    /\ summary_values.weeks_high_risk = LastMined("weeks_high_risk", page_num)

C6_Witness ==
    /\ pc = "done" /\ Len(pdf) = 3 /\ page_num = 2
    /\ summary_values.weeks_total_report = PageSummary[pdf[2]].weeks_total_report
    /\ PageSummary[pdf[1]].weeks_total_report \notin {NoneNum, summary_values.weeks_total_report}
    /\ PageSummary[pdf[3]].weeks_total_report \notin {NoneNum, summary_values.weeks_total_report}

\* the records of the accepted payments tables of the pages 1..n
RECURSIVE PaymentsRecordsOf(_)
PaymentsRecordsOf(n) ==
    IF n = 0 THEN <<>>
    ELSE PaymentsRecordsOf(n - 1) \o
         (IF ~AcceptsPayments(n) THEN <<>>
          ELSE PaymentsRowRecords(PaymentsTableOf(n),
                                  IF \E q \in 1..(n - 1) : AcceptsPayments(q) THEN 1 ELSE 2))

\* a page that neither holds an accepted payments table nor yields a summary
QuietPage(p) == ~AcceptsPayments(p) /\ PageSummary[pdf[p]] = NoSummary

\* C9 as stated: once a payments table was accepted, the first later page
\* without an accepted payments table and without summary text ends the
\* payments run: no row of a page after it is classified.
C9_StopsEarly ==
    \A c \in p_classified :
        ~\E q \in 1..(c[1] - 1) : QuietPage(q) /\ \E r \in 1..(q - 1) : AcceptsPayments(r)

\* C9 amended: the payments run never stops early: it takes every page of
\* the document, and the records it holds are those of the accepted payments
\* tables of all the pages taken, also of those that follow a page without
\* a payments table.
C9_TakesEveryPage ==
    /\ pc = "done" => p_page_num = Len(pdf)
    /\ pc = "weeks" => p_page_num = 0
    /\ p_all_rows = PaymentsRecordsOf(p_page_num)

C9_Witness ==
    /\ pc = "done" /\ Len(pdf) = 3
    /\ AcceptsPayments(1) /\ QuietPage(2) /\ AcceptsPayments(3)
    /\ \E c \in p_classified : c[1] = 3 /\ c[3] = "record"

(***************************************************************************)
(* Properties of the summary miner (SpecSummary).                          *)
(***************************************************************************)
\* what the line of index j yields, and whether the first line is a marker line
LineValue(j) == extract_summary_numeric(Strip(probe.lines[j]))
MarkerFirst == Contains("[26]", probe.lines[1]) /\ Contains("total semanas", Lower(probe.lines[1]))
Plausible(value) == value /= NoneNum /\ value /= <<26, 0>> /\ DecLess(<<100, 0>>, value)

\* the value of the first of the lines js that yields a plausible one
FirstPlausible(js) ==
    LET hits == {j \in js : Plausible(LineValue(j))}
    IN IF hits = {} THEN NoneNum ELSE LineValue(FirstIndex(hits))

\* the lines after the first that are not blank, and the first 4 of them
NonBlankAfterFirst == {j \in 2..Len(probe.lines) : Strip(probe.lines[j]) /= ""}
NextFourNonBlank ==
    {j \in NonBlankAfterFirst : Cardinality({q \in NonBlankAfterFirst : q <= j}) <= 4}

C8_TotalAbove100 ==
    probe.sv.weeks_total_report /= NoneNum =>
        /\ probe.sv.weeks_total_report /= <<26, 0>>
        /\ DecLess(<<100, 0>>, probe.sv.weeks_total_report)

\* C8 amended: every value accepted as weeks_total_report is different from
\* 26 and at least 0.01; it is greater than 100 when it was read from a
\* lookahead line or from a line without the [26] marker, while a value read
\* from the marker line itself is accepted whatever its size.
C8_TotalNeverTheTag ==
    probe.sv.weeks_total_report /= NoneNum =>
        /\ probe.sv.weeks_total_report /= <<26, 0>>
        /\ ~DecLess(probe.sv.weeks_total_report, <<1, 2>>)
        /\ \/ DecLess(<<100, 0>>, probe.sv.weeks_total_report)
           \/ MarkerFirst /\ probe.sv.weeks_total_report = LineValue(1)

C8_Witness ==
    /\ pc = "done"
    /\ probe.lines[1] = "[26] TOTAL SEMANAS 87,50" /\ Len(probe.lines) >= 2
    /\ probe.sv.weeks_total_report = <<875, 1>>

(***************************************************************************)
(* Properties of the acceptance tests (SpecMatch).                         *)
(***************************************************************************)
\* the number of labels for which some header cell contains the label or is
\* contained in it, case-insensitively
SymmetricScore(labels, headers) ==
    Cardinality({i \in 1..Len(labels) :
        \E j \in 1..Len(headers) :
            \/ Contains(Lower(labels[i]), Lower(headers[j]))
            \/ Contains(Lower(headers[j]), Lower(labels[i]))})

\* at least 2 rows, the column count and the score of the schema
Eligible(table, labels, columns, threshold) ==
    /\ Len(table) >= 2
    /\ Len(table[1]) = columns
    /\ SymmetricScore(labels, HeaderCells(table)) >= threshold

PositionalWords(headers) ==
    Cardinality({i \in 1..Len(headers) :
        i <= 13 /\ \E k \in 1..Len(SplitWords(Lower(header_patterns[i]))) :
            LET w == SplitWords(Lower(header_patterns[i]))[k]
            IN ~(Chr(w, 1) = "[") /\ Contains(w, Lower(headers[i]))})
KeywordsIn(headers) ==
    Cardinality({k \in 1..Len(payments_keywords) :
        Contains(payments_keywords[k], Lower(JoinSpace(headers)))})
TitleIn(headers) ==
    \E k \in 1..Len(payments_titles) : Contains(payments_titles[k], Lower(JoinSpace(headers)))

C11_AtMostOneSchema ==
    ~({"weeks", "payments"} \subseteq probe.accepted)

\* a string up to letter case and accents
Folded(s) == Unaccented(Lower(s))

\* the number of expected weeks labels some header cell equals up to letter
\* case and accents
FoldedLabels(headers) ==
    Cardinality({i \in 1..Len(expected_headers) :
        \E j \in 1..Len(headers) : Folded(headers[j]) = Folded(expected_headers[i])})

\* C12 as stated: a table of at least 2 rows and 9 columns whose header cells
\* equal at least 6 of the 9 expected weeks labels up to letter case and
\* accents is accepted by the weeks schema.
C12_CaseAndAccentBlind ==
    ("weeks" \in probe.checked /\ Len(probe.table) >= 2 /\ Len(probe.table[1]) = 9
        /\ FoldedLabels(HeaderCells(probe.table)) >= 6)
    => "weeks" \in probe.accepted


(***************************************************************************)
(* Properties of single calls (SpecCalls).                                 *)
(***************************************************************************)
TotalWords == {"total", "suma", "resumen", "subtotal", "gran total"}
IsRowCall == probe.fn = "row"
HasTotalWord(cell) == Truthy(cell) /\ \E w \in TotalWords : Contains(w, Lower(cell))

\* C13: in both schemas, a row whose first cell contains "total", "suma",
\* "resumen", "subtotal" or "gran total" in any letter case yields no record,
\* whatever its other cells hold.
C13_TotalRowNoRecord ==
    (IsRowCall /\ HasTotalWord(probe.row[1]))
        => /\ probe.weeks \in {"pending", "not_data"} /\ probe.weeks_rows = <<>>
           /\ probe.payments \in {"pending", "not_data"} /\ probe.payments_rows = <<>>

\* a "TOTAL GENERAL" row of nine cells and one of thirteen, each classified by
\* both schemas
C13_Witness ==
    /\ IsRowCall /\ probe.row[1] = "TOTAL GENERAL" /\ Len(probe.row) \in {9, 13}
    /\ probe.weeks = "not_data" /\ probe.payments = "not_data"


Blank(cell) == ~Truthy(cell) \/ Strip(cell) = ""
PaymentRecords == {probe.payments_rows[k] : k \in 1..Len(probe.payments_rows)}

\* C14: every payment record has a non-empty cont_id and a non-empty
\* cont_name; a row whose identifier or name cell is missing or blank yields no
\* record; a data row that has both yields a record whatever its period,
\* income base and days are, null included.
C14_RecordNeedsIdAndName ==
    IsRowCall =>
        /\ \A rec \in PaymentRecords :
              rec.cont_id \notin {None, ""} /\ rec.cont_name \notin {None, ""}
        /\ (Len(probe.row) >= 2 /\ (Blank(probe.row[1]) \/ Blank(probe.row[2])))
              => probe.payments_rows = <<>>
        /\ probe.payments = "no_record" => (Blank(probe.row[1]) \/ Blank(probe.row[2]))
        /\ probe.payments = "record" => Len(probe.payments_rows) = 1

\* a record with an identifier and a name whose period, income base and days
\* are all null
C14_Witness ==
    /\ IsRowCall /\ probe.payments = "record"
    /\ \E rec \in PaymentRecords :
          /\ rec.cont_period = None /\ rec.cont_reported_ibc = NoneNum
          /\ rec.cont_reported_days = NoneNum /\ rec.cont_contributed_days = NoneNum

DayCounts == {NoneNum} \cup {<<d>> : d \in 1..31}

\* C15 as stated: in every payment record, reported_days and contributed_days
\* are each null or an integer in 1..31.
C15_DaysInRange ==
    IsRowCall =>
        \A rec \in PaymentRecords :
            rec.cont_reported_days \in DayCounts /\ rec.cont_contributed_days \in DayCounts


\* the currency strings with grouped thousands and a decimal comma, and the
\* decimal each of them writes
GroupedWithDecimals(str) == Contains(".", str) /\ Len(SplitOn(str, ",")) = 2
WrittenAmount(str) ==
    LET Amount(parts) ==
            MkDec(ToInt(RemoveChar(RemoveChar(RemoveChar(parts[1], "."), "$"), " ") \o parts[2]),
                  Len(parts[2]))
    IN Amount(SplitOn(str, ","))

\* C16 as stated: when a currency string holds both '.' and ',', clean_salary
\* drops the dots as thousands separators and reads the comma as the decimal
\* separator ("$ 1.235.000,50" gives 1235000.50).
C16_DotsThousandsCommaDecimal ==
    (probe.fn = "clean_salary" /\ probe.calls = 1 /\ GroupedWithDecimals(probe.arg))
        => probe.result = WrittenAmount(probe.arg)


PeriodCalled == probe.fn = "normalize_period" /\ probe.calls = 1
SixDigits(str) == Truthy(str) /\ Len(str) = 6 /\ \A i \in 1..6 : Chr(str, i) \in DigitSet

\* C17: for a string of exactly six digits YYYYMM, normalize_period returns
\* "YYYY-MM" when MM is in 01..12 and null when MM is 00 or in 13..99.
C17_SixDigitPeriod ==
    (PeriodCalled /\ SixDigits(probe.arg))
        => probe.result =
              IF ToInt(SubSeq(probe.arg, 5, 6)) \in 1..12
              THEN SubSeq(probe.arg, 1, 4) \o "-" \o SubSeq(probe.arg, 5, 6)
              ELSE None

\* "199712" has given "1997-12"
C17_Witness == PeriodCalled /\ probe.arg = "199712" /\ probe.result = "1997-12"

\* C18 as stated: an input that is not exactly six digits after trimming the
\* surrounding whitespace yields null.
C18_OnlySixDigits ==
    (PeriodCalled /\ ~(Truthy(probe.arg) /\ SixDigits(Strip(probe.arg))))
        => probe.result = None


\* C19 as stated: normalize_date is idempotent: when normalize_date(x) is a
\* date d, normalize_date(d) = d.
C19_Idempotent ==
    (probe.fn = "normalize_date" /\ probe.calls = 2) => probe.again = probe.result


GapsCalled == probe.fn = "get_missing_periods_json" /\ probe.calls = 1
\* a period as YYYY-MM, and its place among the months of the calendar window
Canonical(period) ==
    IF Len(period) = 6 THEN SubSeq(period, 1, 4) \o "-" \o SubSeq(period, 5, 6) ELSE period
Place(month) == CHOOSE i \in 1..Len(WindowMonths) : WindowMonths[i] = month
Present(column) == {Place(Canonical(column[k])) : k \in 1..Len(column)}
Earliest(places) == CHOOSE i \in places : \A j \in places : i <= j
Latest(places) == CHOOSE i \in places : \A j \in places : j <= i

\* C20: for a non-empty column of valid periods in one format, in any order
\* and with repeats, start_period is the earliest period, end_period the
\* latest, missing_periods holds exactly the months from the earliest to the
\* latest that the column lacks, in chronological order without repeats, and
\* the count is the length of missing_periods.
C20_MissingPeriods ==
    GapsCalled =>
        LET Agrees(present, result) ==
                /\ result.start_period = WindowMonths[Earliest(present)]
                /\ result.end_period = WindowMonths[Latest(present)]
                /\ {result.missing_periods[k] : k \in 1..Len(result.missing_periods)}
                      = {WindowMonths[i] : i \in (Earliest(present)..Latest(present)) \ present}
                /\ \A k \in 1..(Len(result.missing_periods) - 1) :
                      Place(result.missing_periods[k]) < Place(result.missing_periods[k + 1])
                /\ result.n_missing = Len(result.missing_periods)
        IN Agrees(Present(probe.arg), probe.result)

\* the periods 2020-04, 2020-01, 2020-03 have given 2020-02 as the one missing
\* month, between 2020-01 and 2020-04
C20_Witness ==
    /\ GapsCalled /\ probe.arg = <<"2020-04", "2020-01", "2020-03">>
    /\ probe.result = [missing_periods |-> <<"2020-02">>, start_period |-> "2020-01",
                       end_period |-> "2020-04", n_missing |-> 1]


(***************************************************************************)
(* Properties of the answer of a whole call.                               *)
(***************************************************************************)
NothingAccepted == \A p \in 1..Len(pdf) : ~AcceptsWeeks(p) /\ ~AcceptsPayments(p)

\* C21 as stated: when no table of any page is accepted by either schema, the
\* call answers with an empty weeks sequence, an empty payments sequence and
\* null for both summary fields.
C21_EmptyAndNull ==
    (pc = "done" /\ NothingAccepted)
        => response = [status |-> "ok", weeks_data |-> <<>>, summary_values |-> NoSummary,
                       payments_data |-> <<>>]

\* C21 amended: when no table of any page is accepted by either schema, the
\* call answers without error with an empty weeks sequence and an empty
\* payments sequence; each summary field holds the value mined from the last
\* page of the document whose text yields one, and is null only when no page
\* text yields one.
C21_EmptyAndMined ==
    (pc = "done" /\ NothingAccepted)
        => response = [status |-> "ok", weeks_data |-> <<>>,
                       summary_values |->
                           [weeks_total_report |-> LastMined("weeks_total_report", Len(pdf)),
                            weeks_high_risk |-> LastMined("weeks_high_risk", Len(pdf))],
                       payments_data |-> <<>>]

\* a document without any accepted table has been answered with a mined total
C21_Witness ==
    /\ pc = "done" /\ NothingAccepted /\ Len(pdf) >= 2
    /\ response.status = "ok" /\ response.weeks_data = <<>> /\ response.payments_data = <<>>
    /\ response.summary_values.weeks_total_report /= NoneNum


(***************************************************************************)
(* Properties of the call with a failing engine (SpecFaults).              *)
(***************************************************************************)
\* C22 as stated: when the layout engine fails while opening the document or
\* while producing the tables or the text of a page, the call ends in a
\* failure and answers with none of the three outputs.
C22_EngineFailureIsFatal ==
    faults /= {} => pc = "failed" /\ response = [status |-> "error"]


(***************************************************************************)
(* Properties of two concurrent calls (SpecPair).                          *)
(***************************************************************************)
\* a call run to its end with no other call beside it
RECURSIVE CallAlone(_)
CallAlone(c) ==
    IF c.pc = "done" THEN c
    ELSE CallAlone(CallStep(c, c.headers_processed, c.p_headers_processed))

AloneResult == [d \in PairDocuments |-> CallAlone(NewCall(d))]

RECURSIVE AllWeeksRecords(_, _, _)
AllWeeksRecords(tables, t, start) ==
    IF t > Len(tables) THEN <<>>
    ELSE IF WeeksTableMatches(tables[t])
         THEN WeeksRowRecords(tables[t], start) \o AllWeeksRecords(tables, t + 1, 1)
         ELSE AllWeeksRecords(tables, t + 1, start)

RECURSIVE AllPaymentsRecords(_, _, _)
AllPaymentsRecords(tables, t, start) ==
    IF t > Len(tables) THEN <<>>
    ELSE IF PaymentsTableMatches(tables[t])
         THEN PaymentsRowRecords(tables[t], start) \o AllPaymentsRecords(tables, t + 1, 1)
         ELSE AllPaymentsRecords(tables, t + 1, start)

PageAllWeeksRecords ==
    [k \in 1..PageCount |-> [start \in 1..2 |-> AllWeeksRecords(PageKinds[k].tables, 1, start)]]
PageAllPaymentsRecords ==
    [k \in 1..PageCount |-> [start \in 1..2 |-> AllPaymentsRecords(PageKinds[k].tables, 1, start)]]

\* C24: on every processed page each raw table the schema's matcher accepts
\* contributes its data rows to the records, in table order and then row
\* order: the pass over a page with weeks headers appends the records of all
\* its accepted weeks tables, and the pass of the payments run over a page
\* appends the records of all its accepted payments tables.
C24_EveryAcceptedTable ==
    [][/\ (pc = "weeks" /\ page_num' = page_num + 1 /\ PageHasWeeksHeaders[pdf[page_num + 1]])
            => all_rows' = all_rows \o
                   PageAllWeeksRecords[pdf[page_num + 1]][StartRow(headers_processed)]
       /\ (pc = "payments" /\ p_page_num' = p_page_num + 1)
            => p_all_rows' = p_all_rows \o
                   PageAllPaymentsRecords[pdf[p_page_num + 1]][StartRow(p_headers_processed)]]_vars


(***************************************************************************)
(* Properties of the row classifiers and record builders (SpecCalls).      *)
(***************************************************************************)
\* C25: for both schemas a row whose first cell, after trimming, has fewer
\* than 2 characters (empty or a single character) is classified Empty and
\* never yields a record.
C25_ShortFirstCellNoRecord ==
    (probe.fn = "row" /\ Len(FirstCell(probe.row)) < 2)
        => /\ probe.weeks \in {"pending", "not_data"} /\ probe.weeks_rows = <<>>
           /\ probe.payments \in {"pending", "not_data"} /\ probe.payments_rows = <<>>


C27_DriversAgree ==
    pc \in {"payments", "done"} => all_rows = extract_table_from_pdf(pdf)


(***************************************************************************)
(* Properties of the header matcher (SpecMatch).                           *)
(***************************************************************************)
\* a header cell that holds text and neither contains an expected weeks
\* label nor is contained in one
UnrelatedCell(cell) ==
    /\ cell /= ""
    /\ \A i \in 1..Len(expected_headers) :
          /\ ~Contains(Lower(expected_headers[i]), Lower(cell))
          /\ ~Contains(Lower(cell), Lower(expected_headers[i]))

\* a first row of only empty or missing cells, or of one empty cell and
\* cells unrelated to every expected label
EmptyOrUnrelatedHeader(headers) ==
    \/ \A j \in 1..Len(headers) : headers[j] = ""
    \/ \E e \in 1..Len(headers) :
          /\ headers[e] = ""
          /\ \A j \in 1..Len(headers) \ {e} : UnrelatedCell(headers[j])

\* C28: an empty header cell does not count as a match for any expected
\* label: a 9-column table with at least 2 rows whose first row consists only
\* of empty or missing cells, or of one empty cell and eight cells unrelated
\* to any expected label, scores below 6 and is not accepted by the weeks
\* schema.
C28_EmptyHeaderCellNoMatch ==
    (/\ Len(probe.table) >= 2
     /\ Len(HeaderCells(probe.table)) = WeeksColumns
     /\ EmptyOrUnrelatedHeader(HeaderCells(probe.table)))
        => /\ _count_header_matches(HeaderCells(probe.table)) < WeeksThreshold
           /\ "weeks" \notin probe.accepted


(***************************************************************************)
(* Properties of the day counts of a payments record (SpecCalls).          *)
(***************************************************************************)
\* C29: in the payments builder the content-sniffing fallback only fills
\* fields the positional mapping left null: if the cell at index 10 of a
\* 13-cell row normalizes to a days value, the emitted reported_days equals
\* that value whatever the other cells hold; and reported_days and
\* contributed_days of one record are never both taken from the same cell.
C29_SniffingOnlyFills ==
    (probe.fn = "row" /\ Len(probe.row) = PaymentsColumns /\ probe.payments = "record")
        => /\ clean_days_value(probe.row[11]) /= NoneNum
                => probe.payments_rows[1].cont_reported_days = clean_days_value(probe.row[11])
           /\ payments_days_cells(probe.row)[1] /= 0
                => payments_days_cells(probe.row)[1] /= payments_days_cells(probe.row)[2]


(***************************************************************************)
(* Properties of the total of the summary across pages (Spec).             *)
(***************************************************************************)
PageTotalMarked == [k \in 1..PageCount |-> total_from_marked_line(PageKinds[k].text)]

\* the page, among the first n, the weeks run holds its weeks_total_report
\* from: the last one whose text yields a total (0: none)
RECURSIVE TotalSourcePage(_)
TotalSourcePage(n) ==
    IF n = 0 THEN 0
    ELSE IF PageSummary[pdf[n]].weeks_total_report /= NoneNum THEN n
    ELSE TotalSourcePage(n - 1)

\* C30: a weeks_total_report obtained from a line carrying the [26] marker is
\* never replaced by a value obtained from an unmarked "total semanas" line:
\* once the run holds a total mined from a marked line, a pass over a later
\* page assigns the total only from a marked line of that page.
C30_MarkedTotalKept ==
    [][(/\ pc = "weeks" /\ page_num' = page_num + 1
        /\ TotalSourcePage(page_num) /= 0
        /\ PageTotalMarked[pdf[TotalSourcePage(page_num)]]
        /\ PageSummary[pdf[page_num + 1]].weeks_total_report /= NoneNum)
            => PageTotalMarked[pdf[page_num + 1]]]_vars

====
